---- MODULE Spec2Model ----
(***************************************************************************)
(* Model of Marlin/stepper.cpp (Marlin4Due): the stepper timer interrupt,  *)
(* the block queue it consumes and the main-loop entry points that share   *)
(* state with it.                                                          *)
(*                                                                         *)
(* Build configuration modelled: Cartesian (no COREXY), single X carriage, *)
(* single Y/Z drivers, single Z endstop, no Z_PROBE_ENDSTOP, no ADVANCE,   *)
(* no Z_LATE_ENABLE, all six X/Y/Z MIN/MAX endstops fitted.                *)
(* ENABLE_HIGH_SPEED_STEPPING is modelled both ways (chosen in Init).      *)
(*                                                                         *)
(* The interrupt handler runs to completion with respect to the main loop, *)
(* so one invocation is one action; what happens inside an invocation is   *)
(* recorded in the history variable tick.  The main loop is a single       *)
(* thread whose position is pc; the statements of its functions are        *)
(* separate actions, so the interrupt can fall between any two of them     *)
(* unless the code masks it.                                               *)
(***************************************************************************)
EXTENDS Integers, Sequences, FiniteSets, TLC

\* ------------------------------------------------------------------ bounds
\* largest step_event_count of a block of the rich alphabet
MaxSteps == 3
\* capacity of the block queue in the model
MaxQueue == 2
\* number of blocks the main loop enqueues in one behaviour
MaxBlocks == 2
\* largest interrupt latency sampled for TC_CV, in timer counts
MaxLatency == 100
MaxBabysteps == 2

\* ------------------------------------------------------- program constants
HAL_TIMER_RATE == 1000000
MAX_STEP_FREQUENCY == 40000
DOUBLE_STEP_FREQUENCY == 10000
\* "we need time for other stuff": the guard added to TC_CV
TIMER_GUARD == 42
\* quickStop: cleaning_buffer_counter = 5000
CLEANING_TICKS == 5000
\* divisors of HAL_TIMER_RATE for the flush and idle re-arm
FLUSH_HZ == 200
IDLE_HZ == 1000

X_AXIS == "X"
Y_AXIS == "Y"
Z_AXIS == "Z"
E_AXIS == "E"
Axes == {X_AXIS, Y_AXIS, Z_AXIS, E_AXIS}
\* the axes that have endstops
EndstopAxes == {X_AXIS, Y_AXIS, Z_AXIS}

\* current_block == NULL; a loaded block b is <<b>>
NULL == <<>>

\* an endstop bit: _ENDSTOP(AXIS, MINMAX)
Endstop(a, mm) == <<a, mm>>

\* the second Z motor and its endstops, of a build with Z_DUAL_ENDSTOPS
Z2 == "Z2"
\* Z_HOME_DIR of the build
Z_HOME_DIR == -1
\* Lock_z_motor and Lock_z2_motor are not called
locked_z_motor == FALSE
locked_z2_motor == FALSE

\* INVERT_X_DIR .. INVERT_E0_DIR of the build
INVERT_DIR == [a \in Axes |-> a \in {Y_AXIS}]

Max(a, b) == IF a >= b THEN a ELSE b
Min(a, b) == IF a <= b THEN a ELSE b
Abs(x) == IF x < 0 THEN -x ELSE x

\* ------------------------------------------------------------ block queue
\* plan_get_current_block(): the head of the queue, or NULL; a peek
plan_get_current_block(q) == IF q = <<>> THEN NULL ELSE <<q[1]>>

\* plan_discard_current_block(): release the head, if there is one
plan_discard_current_block(q) == IF q = <<>> THEN q ELSE Tail(q)

\* blocks_queued()
blocks_queued(q) == q # <<>>

\* ------------------------------------------------------- timer arithmetic
\* calc_timer(step_rate): the interval for a rate, and the step_loops it sets
calc_timer(step_rate, hs) ==
  LET r0 == IF step_rate > MAX_STEP_FREQUENCY THEN MAX_STEP_FREQUENCY ELSE step_rate
      loops == IF hs /\ r0 > 2 * DOUBLE_STEP_FREQUENCY THEN 4
               ELSE IF hs /\ r0 > DOUBLE_STEP_FREQUENCY THEN 2
               ELSE 1
      r1 == IF loops = 4 THEN r0 \div 4 ELSE IF loops = 2 THEN r0 \div 2 ELSE r0
  IN  [timer |-> HAL_TIMER_RATE \div r1, step_loops |-> loops]

\* MultiU32X32toH32: ((uint64_t)longIn1 * longIn2 + 0x80000000) >> 32, for
\* operands below 2^31, computed on 16-bit halves so that no intermediate
\* value leaves the 32-bit range of TLC's integers
MultiU32X32toH32(longIn1, longIn2) ==
  LET ah == longIn1 \div 65536
      al == longIn1 % 65536
      bh == longIn2 \div 65536
      bl == longIn2 % 65536
      blh == bl \div 256
      bll == bl % 256
      \* al * bl = 256 * (u + v \div 256) + v % 256
      u == al * blh
      v == al * bll
      ll_hi == (u + (v \div 256)) \div 256
      m1 == ah * bl
      m2 == al * bh
      mid_hi == (m1 \div 65536) + (m2 \div 65536)
      mid_lo == (m1 % 65536) + (m2 % 65536)
  IN  (ah * bh) + mid_hi + ((mid_lo + ll_hi + 32768) \div 65536)

\* a HAL_timer_stepper_count that writes count whatever the counter reads
HAL_timer_stepper_count_unguarded(count, cv) == count

\* HAL_timer_stepper_count(count): the value written to TC_RC when the
\* counter reads cv
HAL_timer_stepper_count(count, cv) ==
  LET counter_value == cv + TIMER_GUARD
  IN  IF counter_value <= count THEN count ELSE counter_value

\* ------------------------------------------------------------------ state
VARIABLES
  hs,                      \* ENABLE_HIGH_SPEED_STEPPING of the build
  Z_DUAL_ENDSTOPS,         \* Z_DUAL_ENDSTOPS (with Z_DUAL_STEPPER_DRIVERS) of the build
  performing_homing,
  queue,                   \* the planner's block queue, head first
  current_block,           \* NULL or <<the block being traced>>
  out_bits,                \* set of axes whose direction bit is set
  cleaning_buffer_counter,
  counter,                 \* counter_x, counter_y, counter_z, counter_e
  step_events_completed,
  trap,                    \* acc_step_rate, acceleration_time, deceleration_time,
                           \* step_loops, OCR1A_nominal, step_loops_nominal
  endstops_trigsteps,
  endstop_hit_bits,        \* set of endstop bits
  old_endstop_bits,        \* set of endstop bits
  check_endstops,
  count_position,
  count_direction,
  dir_pin,                 \* level of each direction pin
  TC_RC,                   \* the timer's compare register
  stepper_irq,             \* the stepper timer interrupt is enabled
  primask,                 \* interrupts are masked (critical section)
  pc,                      \* position of the main loop
  local,                   \* arguments and locals of the main-loop function
  tick,                    \* history: what the last ISR invocation did
  blk,                     \* history: the block last loaded, its pulses
  hist                     \* history: main-loop bookkeeping

vars == <<hs, Z_DUAL_ENDSTOPS, performing_homing, queue, current_block, out_bits, cleaning_buffer_counter, counter,
          step_events_completed, trap, endstops_trigsteps, endstop_hit_bits,
          old_endstop_bits, check_endstops, count_position, count_direction,
          dir_pin, TC_RC, stepper_irq, primask, pc, local, tick, blk, hist>>

\* the variables the main loop's position functions leave alone
isr_owned == <<current_block, out_bits, counter, step_events_completed, trap,
               old_endstop_bits, count_direction, dir_pin, TC_RC, tick, blk>>

\* ----------------------------------------------------------------- blocks
\* rate profiles: cruise at 1 step per tick, cruise at 2 and at 4 steps per
\* tick (when high speed stepping is built in), and a full trapezoid
Cruise(rate, sec) ==
  [initial_rate |-> rate, nominal_rate |-> rate, final_rate |-> rate,
   accelerate_until |-> 0, decelerate_after |-> sec, acceleration_rate |-> 0]

Trapezoid(sec) ==
  [initial_rate |-> 500, nominal_rate |-> 2000, final_rate |-> 500,
   accelerate_until |-> sec \div 2, decelerate_after |-> sec - (sec \div 2),
   acceleration_rate |-> 1073741824]

MaxOf(steps) == CHOOSE m \in {steps[a] : a \in Axes} : \A a \in Axes : steps[a] <= m

\* a block as the planner builds it: step_event_count is the largest step
\* count and only an axis that moves has its direction bit set
MkBlock(steps, dirs, prof) ==
  [steps |-> steps, step_event_count |-> MaxOf(steps), direction_bits |-> dirs,
   initial_rate |-> prof.initial_rate, nominal_rate |-> prof.nominal_rate,
   final_rate |-> prof.final_rate, accelerate_until |-> prof.accelerate_until,
   decelerate_after |-> prof.decelerate_after,
   acceleration_rate |-> prof.acceleration_rate, busy |-> FALSE, id |-> 0]

\* the step counts of the blocks: X and Y take every count up to MaxSteps,
\* Z moves by at most one step and E moves with Z
StepVectors ==
  {v \in [Axes -> 0..MaxSteps] :
     MaxOf(v) >= 1 /\ v[Z_AXIS] <= 1 /\ v[E_AXIS] = v[Z_AXIS]}

\* the step counts of the blocks of the position mirror: X and E take one
\* count, Y and Z the other, over every pair of counts up to MaxSteps
PairVectors ==
  {v \in [Axes -> 0..MaxSteps] :
     MaxOf(v) >= 1 /\ v[E_AXIS] = v[X_AXIS] /\ v[Z_AXIS] = v[Y_AXIS]}

\* ------------------------------------------------- the interrupt's pieces
\* The pieces below take and return a record s holding the variables the
\* interrupt may write (same names) so that one invocation is their
\* composition, in source order.  A piece that reads its argument more than
\* once binds it first, Only({e(s) : s \in {s0}}) being e(s0) with s0
\* evaluated once.
Only(S) == CHOOSE x \in S : TRUE

\* the level X_APPLY_DIR .. REV_E_DIR/NORM_E_DIR write for a direction bit
DirLevel(a, negative) == IF negative THEN INVERT_DIR[a] ELSE ~INVERT_DIR[a]

\* set_stepper_direction with count_direction left at +1 on every axis
SetAxisDirectionForward(s0, a) ==
  Only({[s EXCEPT !.dir_pin[a] = DirLevel(a, a \in s.out_bits),
                  !.count_direction[a] = 1,
                  !.tick.io = Append(@, <<"dir", a, DirLevel(a, a \in s.out_bits)>>)] :
        s \in {s0}})

\* set_stepper_direction that writes the pin and leaves count_direction
SetAxisDirectionPinOnly(s0, a) ==
  Only({[s EXCEPT !.dir_pin[a] = DirLevel(a, a \in s.out_bits),
                  !.tick.io = Append(@, <<"dir", a, DirLevel(a, a \in s.out_bits)>>)] :
        s \in {s0}})

\* one axis of set_stepper_direction
SetAxisDirection(s0, a) ==
  Only({[s EXCEPT !.dir_pin[a] = DirLevel(a, a \in s.out_bits),
                  !.count_direction[a] = IF a \in s.out_bits THEN -1 ELSE 1,
                  !.tick.io = Append(@, <<"dir", a, DirLevel(a, a \in s.out_bits)>>)] :
        s \in {s0}})

\* set_stepper_direction(): direction pins and count_direction from out_bits
set_stepper_direction(s) ==
  SetAxisDirection(SetAxisDirection(SetAxisDirection(SetAxisDirection(
    s, X_AXIS), Y_AXIS), Z_AXIS), E_AXIS)

\* a reset that leaves acc_step_rate at 0
TrapezoidResetZeroRate(b, h) ==
  [acc_step_rate |-> 0,
   acceleration_time |-> calc_timer(b.initial_rate, h).timer,
   deceleration_time |-> 0,
   step_loops |-> calc_timer(b.initial_rate, h).step_loops,
   OCR1A_nominal |-> calc_timer(b.nominal_rate, h).timer,
   step_loops_nominal |-> calc_timer(b.nominal_rate, h).step_loops]

\* the rate state trapezoid_generator_reset() leaves for the block b
TrapezoidReset(b, h) ==
  [acc_step_rate |-> b.initial_rate,
   acceleration_time |-> calc_timer(b.initial_rate, h).timer,
   deceleration_time |-> 0,
   step_loops |-> calc_timer(b.initial_rate, h).step_loops,
   OCR1A_nominal |-> calc_timer(b.nominal_rate, h).timer,
   step_loops_nominal |-> calc_timer(b.nominal_rate, h).step_loops]

\* a trapezoid_generator_reset() that takes the block's direction bits and
\* leaves the pins alone
trapezoid_generator_reset_NoDir(s0, b, h) ==
  Only({[s EXCEPT !.out_bits = b.direction_bits, !.trap = TrapezoidReset(b, h)] :
        s \in {s0}})

\* trapezoid_generator_reset(), for the block b just loaded
trapezoid_generator_reset(s0, b, h) ==
  Only({[(IF b.direction_bits # s.out_bits
          THEN set_stepper_direction([s EXCEPT !.out_bits = b.direction_bits])
          ELSE s)
           EXCEPT !.trap = TrapezoidReset(b, h)] :
        s \in {s0}})

\* the write of step_events_completed, noted in the invocation's history
SetCompleted(s, v) ==
  [s EXCEPT !.step_events_completed = v, !.tick.sec_log = Append(@, v)]

\* TEST_ENDSTOP(ENDSTOP): asserted in the current and in the previous sample
TEST_ENDSTOP(current_endstop_bits, old_bits, e) ==
  e \in current_endstop_bits /\ e \in old_bits

\* _ENDSTOP_HIT(AXIS): the bit set in endstop_hit_bits is the axis's MIN bit
EndstopHitBit(a) == Endstop(a, "MIN")

\* UPDATE_ENDSTOP that assigns the axis's bit to endstop_hit_bits
LatchEndstopAssign(s0, b, a) ==
  Only({SetCompleted(
          [s EXCEPT !.endstops_trigsteps[a] = s.count_position[a],
                    !.endstop_hit_bits = {EndstopHitBit(a)},
                    !.tick.hits = @ \cup {a},
                    !.blk.truncated = TRUE],
          b.step_event_count) :
        s \in {s0}})

\* UPDATE_ENDSTOP that latches the hit but leaves step_events_completed alone
LatchEndstopOnly(s0, b, a) ==
  Only({[s EXCEPT !.endstops_trigsteps[a] = s.count_position[a],
                  !.endstop_hit_bits = @ \cup {EndstopHitBit(a)},
                  !.tick.hits = @ \cup {a},
                  !.blk.truncated = TRUE] :
        s \in {s0}})

\* the body of UPDATE_ENDSTOP's if: latch and force the block to its end
LatchEndstop(s0, b, a) ==
  Only({SetCompleted(
          [s EXCEPT !.endstops_trigsteps[a] = s.count_position[a],
                    !.endstop_hit_bits = @ \cup {EndstopHitBit(a)},
                    !.tick.hits = @ \cup {a},
                    !.blk.truncated = TRUE],
          b.step_event_count) :
        s \in {s0}})

\* UPDATE_ENDSTOP(AXIS, MINMAX) after SET_ENDSTOP_BIT
UPDATE_ENDSTOP(s0, b, a, mm, current_endstop_bits) ==
  Only({IF TEST_ENDSTOP(current_endstop_bits, s.old_endstop_bits, Endstop(a, mm))
           /\ b.steps[a] > 0
        THEN LatchEndstop(s, b, a)
        ELSE s :
        s \in {s0}})

\* a selection of the endstop the axis moves away from
GatedAway(out, a) == IF a \in out THEN "MAX" ELSE "MIN"

\* the endstop an axis's direction bit selects: MIN when moving negative
Gated(out, a) == IF a \in out THEN "MIN" ELSE "MAX"

\* SET_ENDSTOP_BIT over the three selected endstops; asserted is the set of
\* endstops whose pin reads triggered
SampleEndstops(out, asserted) ==
  {Endstop(a, Gated(out, a)) : a \in EndstopAxes} \cap asserted

\* SET_ENDSTOP_BIT(Z2, MINMAX) as well, with Z_DUAL_ENDSTOPS
SampleEndstopsDual(out, asserted) ==
  SampleEndstops(out, asserted)
    \cup ({Endstop(Z2, Gated(out, Z_AXIS))} \cap asserted)

\* x << n
ShiftLeft(x, n) == x * 2^n

\* the value of a C comparison
CBool(p) == IF p THEN 1 ELSE 0

\* byte z_test = TEST_ENDSTOP(Z_MIN) << 0 + TEST_ENDSTOP(Z2_MIN) << 1: "+"
\* binds tighter than "<<", which associates to the left
z_test(cur, old, mm) ==
  ShiftLeft(ShiftLeft(CBool(TEST_ENDSTOP(cur, old, Endstop(Z_AXIS, mm))),
                      0 + CBool(TEST_ENDSTOP(cur, old, Endstop(Z2, mm)))),
            1) % 256

\* the latch of the dual Z section when the block is left to run
LatchEndstopHoming(s, a) ==
  [s EXCEPT !.endstops_trigsteps[a] = s.count_position[a],
            !.endstop_hit_bits = @ \cup {EndstopHitBit(a)},
            !.tick.hits = @ \cup {a}]

\* the Z section with Z_DUAL_ENDSTOPS: if (z_test && steps[Z_AXIS] > 0) ...
DualZEndstop(s0, b, mm, cur) ==
  Only({IF zt # 0 /\ b.steps[Z_AXIS] > 0
        THEN IF ~s.performing_homing \/ zt = 3
             THEN LatchEndstop(s, b, Z_AXIS)
             ELSE LatchEndstopHoming(s, Z_AXIS)
        ELSE s :
        s \in {s0}, zt \in {z_test(cur, s0.old_endstop_bits, mm)}})

\* the Z section of either build
ZEndstop(s, b, mm, cur) ==
  IF s.Z_DUAL_ENDSTOPS THEN DualZEndstop(s, b, mm, cur)
  ELSE UPDATE_ENDSTOP(s, b, Z_AXIS, mm, cur)

\* the "Check endstops" section, for the pin levels asserted
CheckEndstops(s0, b, asserted) ==
  Only({[ZEndstop(
           UPDATE_ENDSTOP(
             UPDATE_ENDSTOP(s, b, X_AXIS, Gated(s.out_bits, X_AXIS), cur),
             b, Y_AXIS, Gated(s.out_bits, Y_AXIS), cur),
           b, Gated(s.out_bits, Z_AXIS), cur)
           EXCEPT !.old_endstop_bits = cur] :
        s \in {s0},
        cur \in {IF s0.Z_DUAL_ENDSTOPS
                 THEN SampleEndstopsDual(s0.out_bits, asserted)
                 ELSE SampleEndstops(s0.out_bits, asserted)}})

\* a Z motor is stepped while homing unless its own endstop at the homing end
\* was closed in the last sample and the axis moves toward it
HomingMotorSteps(s, z, locked) ==
  /\ ~(/\ Endstop(z, IF Z_HOME_DIR > 0 THEN "MAX" ELSE "MIN") \in s.old_endstop_bits
       /\ IF Z_HOME_DIR > 0 THEN s.count_direction[Z_AXIS] > 0
          ELSE s.count_direction[Z_AXIS] < 0)
  /\ ~locked

\* Z_APPLY_STEP(v, Q) with Z_DUAL_ENDSTOPS: the writes to the two step pins
Z_APPLY_STEP(s, v) ==
  (IF ~s.performing_homing \/ HomingMotorSteps(s, Z_AXIS, locked_z_motor)
   THEN <<<<"step", Z_AXIS, v>>>> ELSE <<>>)
  \o (IF ~s.performing_homing \/ HomingMotorSteps(s, Z2, locked_z2_motor)
      THEN <<<<"step", Z2, v>>>> ELSE <<>>)

\* X_APPLY_STEP .. E_APPLY_STEP: the step pin writes of an axis
APPLY_STEP(s, a, v) ==
  IF a = Z_AXIS /\ s.Z_DUAL_ENDSTOPS THEN Z_APPLY_STEP(s, v)
  ELSE <<<<"step", a, v>>>>

\* STEP_START(axis, AXIS)
STEP_START(s0, b, a) ==
  Only({IF s.counter[a] + b.steps[a] > 0
        THEN [s EXCEPT !.counter[a] = @ + b.steps[a] - b.step_event_count,
                       !.count_position[a] = @ + s.count_direction[a],
                       !.tick.io = @ \o APPLY_STEP(s, a, TRUE),
                       !.blk.pulses[a] = @ + 1,
                       !.blk.delta[a] = @ + s.count_direction[a]]
        ELSE [s EXCEPT !.counter[a] = @ + b.steps[a]] :
        s \in {s0}})

\* STEP_END(axis, AXIS)
STEP_END(s, a) == [s EXCEPT !.tick.io = @ \o APPLY_STEP(s, a, FALSE)]

StepStartAll(s, b) ==
  STEP_START(STEP_START(STEP_START(STEP_START(s, b, X_AXIS), b, Y_AXIS), b, Z_AXIS), b, E_AXIS)

StepEndAll(s) == STEP_END(STEP_END(STEP_END(STEP_END(s, X_AXIS), Y_AXIS), Z_AXIS), E_AXIS)

\* a step event that counts twice
CountStepEventTwice(s0) ==
  Only({[s EXCEPT !.blk.cum = Append(@, s.blk.pulses)] :
        s \in {SetCompleted(s1, s1.step_events_completed + 2) : s1 \in {s0}}})

\* step_events_completed++, with the pulses so far noted per step event
CountStepEvent(s0) ==
  Only({[s EXCEPT !.blk.cum = Append(@, s.blk.pulses)] :
        s \in {SetCompleted(s1, s1.step_events_completed + 1) : s1 \in {s0}}})

\* a pass of the high speed loop that writes the STEP_ENDs first
HighSpeedPassEndFirst(s, b) == CountStepEvent(StepStartAll(StepEndAll(s), b))

\* one pass of the high speed loop body
HighSpeedPass(s, b) == CountStepEvent(StepEndAll(StepStartAll(s, b)))

\* for (i = 0; i < step_loops; i++) { ...; if (completed >= count) break; }
RECURSIVE HighSpeedLoop(_, _, _)
HighSpeedLoop(s0, b, i) ==
  Only({IF i >= s.trap.step_loops THEN s
        ELSE Only({IF s1.step_events_completed >= b.step_event_count THEN s1
                   ELSE HighSpeedLoop(s1, b, i + 1) :
                   s1 \in {HighSpeedPass(s, b)}}) :
        s \in {s0}})

\* the stepping section: the loop, or one set of STEP_STARTs
StepSection(s, b, h) ==
  IF h THEN HighSpeedLoop(s, b, 0) ELSE CountStepEvent(StepStartAll(s, b))

\* an acceleration branch that adds the rate reached instead of initial_rate
AccelRateCumulative(s, b) ==
  Min(MultiU32X32toH32(s.trap.acceleration_time, b.acceleration_rate)
        + s.trap.acc_step_rate,
      b.nominal_rate)

\* an acceleration branch without the upper limit
AccelRateUnlimited(s, b) ==
  MultiU32X32toH32(s.trap.acceleration_time, b.acceleration_rate) + b.initial_rate

\* the rate of the acceleration branch: acc_step_rate, with its upper limit
AccelRate(s, b) ==
  Min(MultiU32X32toH32(s.trap.acceleration_time, b.acceleration_rate)
        + b.initial_rate,
      b.nominal_rate)

\* a deceleration branch without the final comparison against final_rate
DecelRateNoFloor(s, b) ==
  IF MultiU32X32toH32(s.trap.deceleration_time, b.acceleration_rate)
       > s.trap.acc_step_rate
  THEN b.final_rate
  ELSE s.trap.acc_step_rate
         - MultiU32X32toH32(s.trap.deceleration_time, b.acceleration_rate)

\* the rate of the deceleration branch: step_rate, with its lower limit
DecelRate(s, b) ==
  Max(IF MultiU32X32toH32(s.trap.deceleration_time, b.acceleration_rate)
           > s.trap.acc_step_rate
      THEN b.final_rate
      ELSE s.trap.acc_step_rate
             - MultiU32X32toH32(s.trap.deceleration_time, b.acceleration_rate),
      b.final_rate)

\* "Calculate new timer value": the branch taken, the rate state and the
\* interval, left in tick.timer
TrapezoidUpdate(s0, b, h) ==
  Only({IF s.step_events_completed <= b.accelerate_until
        THEN Only({[s EXCEPT !.trap.acc_step_rate = r,
                             !.trap.acceleration_time = @ + calc_timer(r, h).timer,
                             !.trap.step_loops = calc_timer(r, h).step_loops,
                             !.tick.timer = calc_timer(r, h).timer,
                             !.tick.rate = r,
                             !.tick.phase = "accel"] :
                   r \in {AccelRate(s, b)}})
        ELSE IF s.step_events_completed > b.decelerate_after
        THEN Only({[s EXCEPT !.trap.deceleration_time = @ + calc_timer(r, h).timer,
                             !.trap.step_loops = calc_timer(r, h).step_loops,
                             !.tick.timer = calc_timer(r, h).timer,
                             !.tick.rate = r,
                             !.tick.phase = "decel"] :
                   r \in {DecelRate(s, b)}})
        ELSE [s EXCEPT !.trap.step_loops = s.trap.step_loops_nominal,
                       !.tick.timer = s.trap.OCR1A_nominal,
                       !.tick.phase = "cruise"] :
        s \in {s0}})

\* a call of HAL_timer_stepper_count(count) while the counter reads cv
RearmTimer(s, count, cv) ==
  [s EXCEPT !.TC_RC = HAL_timer_stepper_count(count, cv),
            !.tick.io = Append(@, <<"rc", count, HAL_timer_stepper_count(count, cv)>>)]

\* a call of plan_discard_current_block() from the interrupt
IsrDiscard(s) ==
  [s EXCEPT !.queue = plan_discard_current_block(@), !.tick.discards = @ + 1]

\* a flush path that counts down by two
FlushDecrementTwo(c) == c - 2

\* the decrement of the flush path
FlushDecrement(c) == c - 1

\* if (cleaning_buffer_counter) { ... return; }
FlushPath(s, cv) ==
  RearmTimer(
    [IsrDiscard([s EXCEPT !.current_block = NULL])
       EXCEPT !.cleaning_buffer_counter = FlushDecrement(@),
              !.tick.path = "flush"],
    HAL_TIMER_RATE \div FLUSH_HZ, cv)

\* Bresenham counters that start at +step_event_count
CounterInitFull(b) == b.step_event_count

\* the initial value of the four Bresenham counters
CounterInit(b) == -(b.step_event_count \div 2)

\* the history of a block, as it is when the block is loaded
BlkLoaded(b) ==
  [id |-> b.id, block |-> b, pulses |-> [a \in Axes |-> 0], cum |-> <<>>,
   truncated |-> FALSE, released |-> FALSE, delta |-> [a \in Axes |-> 0]]

\* if (current_block) { busy = true; trapezoid_generator_reset(); ... }
LoadBlock(s0, h) ==
  Only({[SetCompleted(
           trapezoid_generator_reset(
             [s EXCEPT !.queue = q, !.current_block = <<q[1]>>,
                       !.tick.loaded = TRUE], q[1], h),
           0)
           EXCEPT !.counter = [a \in Axes |-> CounterInit(q[1])],
                  !.blk = BlkLoaded(q[1])] :
        s \in {s0}, q \in {[s0.queue EXCEPT ![1].busy = TRUE]}})

\* a block acquire whose idle branch forgets the last endstop sample
AcquireBlockIdleResets(s0, cv, h) ==
  Only({IF s.current_block # NULL THEN s
        ELSE IF plan_get_current_block(s.queue) # NULL THEN LoadBlock(s, h)
        ELSE RearmTimer([s EXCEPT !.tick.path = "idle", !.old_endstop_bits = {}],
                        HAL_TIMER_RATE \div IDLE_HZ, cv) :
        s \in {s0}})

\* a block acquire that does not test current_block
AcquireBlockAlways(s0, cv, h) ==
  Only({IF plan_get_current_block(s.queue) # NULL THEN LoadBlock(s, h)
        ELSE IF s.current_block # NULL THEN s
        ELSE RearmTimer([s EXCEPT !.tick.path = "idle"],
                        HAL_TIMER_RATE \div IDLE_HZ, cv) :
        s \in {s0}})

\* if (!current_block) { current_block = plan_get_current_block(); ... }
AcquireBlock(s0, cv, h) ==
  Only({IF s.current_block # NULL THEN s
        ELSE IF plan_get_current_block(s.queue) # NULL THEN LoadBlock(s, h)
        ELSE RearmTimer([s EXCEPT !.tick.path = "idle"],
                        HAL_TIMER_RATE \div IDLE_HZ, cv) :
        s \in {s0}})

\* a release that discards the block but keeps the pointer to it
ReleaseBlockKeepCurrent(s0, b) ==
  Only({IF s.step_events_completed >= b.step_event_count
        THEN [IsrDiscard(s) EXCEPT !.blk.released = TRUE]
        ELSE s :
        s \in {s0}})

\* "If current block is finished, reset pointer"
ReleaseBlock(s0, b) ==
  Only({IF s.step_events_completed >= b.step_event_count
        THEN [IsrDiscard([s EXCEPT !.current_block = NULL])
                EXCEPT !.blk.released = TRUE]
        ELSE s :
        s \in {s0}})

\* a block path that samples the endstops whatever check_endstops says
BlockStepsAlwaysCheck(s0, b, asserted, h, check) ==
  Only({(IF h THEN s3 ELSE StepEndAll(s3)) :
        s3 \in {TrapezoidUpdate(
                  StepSection(CheckEndstops(s, b, asserted), b, h),
                  b, h) :
                s \in {[s0 EXCEPT !.tick.path = "block", !.tick.id = b.id]}}})

\* the block path up to the timer value: endstops, steps, new timer value
\* and, without the high speed loop, the trailing STEP_ENDs
BlockSteps(s0, b, asserted, h, check) ==
  Only({(IF h THEN s3 ELSE StepEndAll(s3)) :
        s3 \in {TrapezoidUpdate(
                  StepSection(
                    IF check THEN CheckEndstops(s, b, asserted) ELSE s, b, h),
                  b, h) :
                s \in {[s0 EXCEPT !.tick.path = "block", !.tick.id = b.id]}}})

\* if (current_block != NULL) { endstops; steps; timer; release }
BlockPath(s0, asserted, cv, h, check) ==
  Only({Only({ReleaseBlock(RearmTimer(s4, s4.tick.timer, cv), b) :
              s4 \in {BlockSteps(s, b, asserted, h, check)}}) :
        s \in {s0}, b \in {s0.current_block[1]}})

\* HAL_STEP_TIMER_ISR: one invocation, from the state s, with the endstop
\* pins asserted and the timer counter reading cv
HAL_STEP_TIMER_ISR(s, asserted, cv, h, check) ==
  IF s.cleaning_buffer_counter # 0 THEN FlushPath(s, cv)
  ELSE Only({IF s1.current_block # NULL
             THEN BlockPath(s1, asserted, cv, h, check)
             ELSE s1 :
             s1 \in {AcquireBlock(s, cv, h)}})

\* the history of an invocation, as it is on entry
TickEntry ==
  [path |-> "none", id |-> 0, loaded |-> FALSE, hits |-> {},
   io |-> <<>>,
   sec_log |-> <<>>, discards |-> 0, timer |-> 0, rate |-> 0, phase |-> "none",
   cleaning_in |-> cleaning_buffer_counter]

\* the interrupt's view of the state on entry
IsrEntry ==
  [queue |-> queue, current_block |-> current_block, out_bits |-> out_bits,
   cleaning_buffer_counter |-> cleaning_buffer_counter, counter |-> counter,
   step_events_completed |-> step_events_completed, trap |-> trap,
   endstops_trigsteps |-> endstops_trigsteps,
   endstop_hit_bits |-> endstop_hit_bits, old_endstop_bits |-> old_endstop_bits,
   count_position |-> count_position, count_direction |-> count_direction,
   dir_pin |-> dir_pin, TC_RC |-> TC_RC, tick |-> TickEntry, blk |-> blk,
   Z_DUAL_ENDSTOPS |-> Z_DUAL_ENDSTOPS, performing_homing |-> performing_homing]

\* the signed step count of a block on an axis
SignedSteps(b, a) == IF a \in b.direction_bits THEN -b.steps[a] ELSE b.steps[a]

\* the step pulses among the pin writes io on axis a
PulsesIn(io, a) == Len(SelectSeq(io, LAMBDA w : w = <<"step", a, TRUE>>))

\* the travel of the pulses of an invocation that ends in s, by the level of
\* the direction pin they were emitted at
PulseTravel(s, a) ==
  IF s.dir_pin[a] = DirLevel(a, FALSE) THEN PulsesIn(s.tick.io, a)
  ELSE -PulsesIn(s.tick.io, a)

\* history kept across an invocation that went from e to s: whether the
\* interrupt moved count_position since the last st_set_position, and the
\* position expected from the blocks run to completion since then; the
\* invocations that took the flush path
NoteIsr(h, e, s) ==
  LET worked == e.current_block # NULL \/ s.tick.loaded
      ended == worked /\ s.current_block = NULL
      whole == s.tick.path = "block" /\ ~s.blk.truncated
  IN  [h EXCEPT !.moved = @ \/ s.count_position # e.count_position,
                !.expect = IF ended /\ whole
                           THEN [a \in Axes |-> @[a] + SignedSteps(s.blk.block, a)]
                           ELSE @,
                !.clean = @ /\ (ended => whole),
                !.flushes = IF s.tick.path = "flush" THEN @ + 1 ELSE @,
                !.acct = [a \in Axes |-> @[a] + PulseTravel(s, a)]]

\* the values TC_CV is sampled at: the interrupt's latency
TcCvSamples == {0, MaxLatency}

\* the interrupt is taken only when it is enabled and not masked
IsrCanFire == stepper_irq /\ ~primask

\* the endstop pin levels an invocation may find: per axis, the switches of
\* the axis read triggered or not (the interrupt reads one endstop per axis,
\* the one the direction bit selects)
AxisLevels ==
  {{Endstop(a, mm) : a \in A, mm \in {"MIN", "MAX"}} : A \in SUBSET EndstopAxes}

\* no endstop switch is closed
NoLevels == {{}}

\* one invocation of the stepper interrupt; levels are the endstop pin levels
\* it may find (each a set of triggered endstops), latencies the values its
\* read of TC_CV may return
StepperISR(levels, latencies) ==
  /\ IsrCanFire
  /\ \E asserted \in levels, cv \in latencies :
       \E s \in {HAL_STEP_TIMER_ISR(IsrEntry, asserted, cv, hs, check_endstops)} :
           /\ queue' = s.queue
           /\ current_block' = s.current_block
           /\ out_bits' = s.out_bits
           /\ cleaning_buffer_counter' = s.cleaning_buffer_counter
           /\ counter' = s.counter
           /\ step_events_completed' = s.step_events_completed
           /\ trap' = s.trap
           /\ endstops_trigsteps' = s.endstops_trigsteps
           /\ endstop_hit_bits' = s.endstop_hit_bits
           /\ old_endstop_bits' = s.old_endstop_bits
           /\ count_position' = s.count_position
           /\ count_direction' = s.count_direction
           /\ dir_pin' = s.dir_pin
           /\ TC_RC' = s.TC_RC
           /\ tick' = s.tick
           /\ blk' = s.blk
           /\ hist' = NoteIsr(hist, IsrEntry, s)
  /\ UNCHANGED <<hs, Z_DUAL_ENDSTOPS, performing_homing, check_endstops, stepper_irq, primask, pc, local>>

\* --------------------------------------------------------- the main loop
\* the main loop is between two calls
AtRest == pc = "idle"

LocalInit ==
  [p |-> [a \in Axes |-> 0], axis |-> X_AXIS, count_pos |-> 0, report |-> {}]

\* the positions st_set_position is called with
PositionSamples ==
  {[a \in Axes |-> 0],
   [a \in Axes |-> CASE a = X_AXIS -> 5 [] a = Y_AXIS -> -3 [] a = Z_AXIS -> 2 [] OTHER -> 7]}

\* the values st_set_e_position is called with
EPositionSamples == {0, -4}

\* plan_buffer_line: a block enters the queue; st_wake_up() enables the
\* stepper interrupt.  limit bounds the blocks of one behaviour.
Enqueue(b, limit) ==
  /\ AtRest
  /\ Len(queue) < MaxQueue
  /\ hist.enqueued < limit
  /\ queue' = Append(queue, [b EXCEPT !.id = hist.enqueued + 1])
  /\ stepper_irq' = TRUE
  /\ hist' = [hist EXCEPT !.enqueued = @ + 1]
  /\ UNCHANGED <<hs, Z_DUAL_ENDSTOPS, performing_homing, cleaning_buffer_counter, endstops_trigsteps, endstop_hit_bits,
                 check_endstops, count_position, primask, pc, local, isr_owned>>

\* enable_endstops(check)
enable_endstops(check) ==
  /\ AtRest
  /\ check_endstops # check
  /\ check_endstops' = check
  /\ UNCHANGED <<hs, Z_DUAL_ENDSTOPS, performing_homing, queue, cleaning_buffer_counter, endstops_trigsteps,
                 endstop_hit_bits, count_position, stepper_irq, primask, pc, local,
                 hist, isr_owned>>

\* In_Homing_Process(state)
In_Homing_Process(state) ==
  /\ AtRest
  /\ performing_homing # state
  /\ performing_homing' = state
  /\ UNCHANGED <<hs, Z_DUAL_ENDSTOPS, queue, cleaning_buffer_counter,
                 endstops_trigsteps, endstop_hit_bits, check_endstops,
                 count_position, stepper_irq, primask, pc, local, hist,
                 isr_owned>>

\* the variables the endstop accessors leave alone
endstop_frame == <<hs, Z_DUAL_ENDSTOPS, performing_homing, queue, cleaning_buffer_counter, endstops_trigsteps,
                   check_endstops, count_position, stepper_irq, primask, hist,
                   isr_owned>>

\* endstops_hit_on_purpose(): endstop_hit_bits = 0
endstops_hit_on_purpose ==
  /\ AtRest
  /\ endstop_hit_bits' = {}
  /\ UNCHANGED <<pc, local>>
  /\ UNCHANGED endstop_frame

\* checkHitEndstops(): if (endstop_hit_bits) { SERIAL_ECHO_START; ...
CheckHitEndstopsTest ==
  /\ AtRest
  /\ IF endstop_hit_bits # {}
     THEN pc' = "chk_report" /\ local' = [local EXCEPT !.axis = X_AXIS]
     ELSE UNCHANGED <<pc, local>>
  /\ UNCHANGED endstop_hit_bits
  /\ UNCHANGED endstop_frame

\* the axis whose bit checkHitEndstops tests after a's
NextReported(a) == IF a = X_AXIS THEN Y_AXIS ELSE Z_AXIS

\* if (endstop_hit_bits & BIT(X_MIN)) { SERIAL_ECHOPAIR(" X:", ...); }, and
\* the same for Y and for Z: the bit read now is reported or not
CheckHitEndstopsReport ==
  /\ pc = "chk_report"
  /\ local' = [local EXCEPT
                 !.report = IF EndstopHitBit(local.axis) \in endstop_hit_bits
                            THEN @ \cup {EndstopHitBit(local.axis)} ELSE @,
                 !.axis = NextReported(@)]
  /\ pc' = IF local.axis = Z_AXIS THEN "chk_clear" ELSE "chk_report"
  /\ UNCHANGED endstop_hit_bits
  /\ UNCHANGED endstop_frame

\* SERIAL_EOL; endstops_hit_on_purpose(); and return
CheckHitEndstopsClear ==
  /\ pc = "chk_clear"
  /\ endstop_hit_bits' = {}
  /\ pc' = "idle"
  /\ local' = LocalInit
  /\ UNCHANGED endstop_frame

\* CRITICAL_SECTION_START: interrupts are masked
CriticalSectionStart == TRUE

\* ---------------------------------------------------------------- babystep
\* The pieces take and return a record c of the direction pins and of the
\* pin writes of the call, in order.
BABYSTEP_INVERT_Z == FALSE

\* a ^ b on bools
Xor(a, b) == a # b

\* _ENABLE(axis)
BabystepEnable(c, a) == [c EXCEPT !.io = Append(@, <<"enable", a, TRUE>>)]

\* _APPLY_DIR(AXIS, v)
BabystepApplyDir(c, a, v) ==
  [c EXCEPT !.dir_pin[a] = v, !.io = Append(@, <<"dir", a, v>>)]

\* _APPLY_STEP(AXIS)(v, true): v is TRUE for the active level
BabystepApplyStep(c, a, v) == [c EXCEPT !.io = Append(@, <<"step", a, v>>)]

\* a BABYSTEP_AXIS that leaves the direction pin as it set it
BABYSTEP_AXIS_NoRestore(c0, a, direction, invert) ==
  Only({BabystepApplyStep(
          BabystepApplyStep(
            BabystepApplyDir(BabystepEnable(c, a), a,
                             Xor(Xor(INVERT_DIR[a], direction), invert)),
            a, TRUE),
          a, FALSE) :
        c \in {c0}})

\* BABYSTEP_AXIS(axis, AXIS, INVERT)
BABYSTEP_AXIS(c0, a, direction, invert) ==
  Only({BabystepApplyDir(
          BabystepApplyStep(
            BabystepApplyStep(
              BabystepApplyDir(BabystepEnable(c, a), a,
                               Xor(Xor(INVERT_DIR[a], direction), invert)),
              a, TRUE),
            a, FALSE),
          a, old_pin) :
        c \in {c0}, old_pin \in {c0.dir_pin[a]}})

\* case Z_AXIS of a DELTA build: the three towers step together
BabystepDeltaZ(c0, direction) ==
  LET z_direction == Xor(direction, BABYSTEP_INVERT_Z)
      E3(c) == BabystepEnable(BabystepEnable(BabystepEnable(c, X_AXIS), Y_AXIS), Z_AXIS)
      D3(c) == BabystepApplyDir(
                 BabystepApplyDir(
                   BabystepApplyDir(c, X_AXIS, Xor(INVERT_DIR[X_AXIS], z_direction)),
                   Y_AXIS, Xor(INVERT_DIR[Y_AXIS], z_direction)),
                 Z_AXIS, Xor(INVERT_DIR[Z_AXIS], z_direction))
      S3(c, v) == BabystepApplyStep(
                    BabystepApplyStep(BabystepApplyStep(c, X_AXIS, v), Y_AXIS, v),
                    Z_AXIS, v)
      R3(c) == BabystepApplyDir(
                 BabystepApplyDir(
                   BabystepApplyDir(c, X_AXIS, c0.dir_pin[X_AXIS]),
                   Y_AXIS, c0.dir_pin[Y_AXIS]),
                 Z_AXIS, c0.dir_pin[Z_AXIS])
  IN  R3(S3(S3(D3(E3(c0)), TRUE), FALSE))

\* switch(axis) { case X_AXIS: ... case Y_AXIS: ... case Z_AXIS: ...
\* default: break; }, in a build with or without DELTA
BabystepSwitch(c, axis, direction, delta) ==
  CASE axis \in {X_AXIS, Y_AXIS} -> BABYSTEP_AXIS(c, axis, direction, FALSE)
    [] axis = Z_AXIS /\ ~delta -> BABYSTEP_AXIS(c, axis, direction, BABYSTEP_INVERT_Z)
    [] axis = Z_AXIS /\ delta -> BabystepDeltaZ(c, direction)
    [] OTHER -> c

\* babystep(axis, direction), called from another interrupt handler; the
\* stepper interrupt does not run within it ("No other ISR should ever
\* interrupt this!").  delta is the build's kinematics.  The history notes
\* the block and the step event the call falls in.
babystep(axis, direction, delta) ==
  /\ ~primask
  /\ hist.babysteps < MaxBabysteps
  /\ \E c \in {BabystepSwitch([dir_pin |-> dir_pin, io |-> <<>>],
                                axis, direction, delta)} :
       /\ dir_pin' = c.dir_pin
       /\ hist' = [hist EXCEPT !.babysteps = @ + 1,
                               !.baby = [axis |-> axis, direction |-> direction,
                                         delta |-> delta, io |-> c.io,
                                         at |-> IF current_block = NULL
                                                THEN <<0, 0>>
                                                ELSE <<blk.id, step_events_completed>>]]
  /\ UNCHANGED <<hs, Z_DUAL_ENDSTOPS, performing_homing, queue, current_block, out_bits, cleaning_buffer_counter,
                 counter, step_events_completed, trap, endstops_trigsteps,
                 endstop_hit_bits, old_endstop_bits, check_endstops,
                 count_position, count_direction, TC_RC, stepper_irq, primask,
                 pc, local, tick, blk>>

\* what the position functions leave alone
position_frame == <<hs, Z_DUAL_ENDSTOPS, performing_homing, queue, cleaning_buffer_counter, endstops_trigsteps,
                    endstop_hit_bits, check_endstops, stepper_irq, isr_owned>>

\* st_set_position entered without masking the interrupt
SetPositionEnterUnmasked(p) ==
  /\ AtRest
  /\ pc' = "set_X"
  /\ local' = [local EXCEPT !.p = p]
  /\ UNCHANGED <<primask, count_position, hist>>
  /\ UNCHANGED position_frame

\* st_set_position(x, y, z, e): entry and CRITICAL_SECTION_START
SetPositionEnter(p) ==
  /\ AtRest
  /\ primask' = CriticalSectionStart
  /\ pc' = "set_X"
  /\ local' = [local EXCEPT !.p = p]
  /\ UNCHANGED <<count_position, hist>>
  /\ UNCHANGED position_frame

\* the pc after the write of an axis in st_set_position
AfterWrite(a) ==
  CASE a = X_AXIS -> "set_Y" [] a = Y_AXIS -> "set_Z" [] a = Z_AXIS -> "set_E"
    [] OTHER -> "set_end"

\* count_position[AXIS] = value, one of the four writes of st_set_position
SetPositionWrite(a) ==
  /\ pc = "set_" \o a
  /\ count_position' = [count_position EXCEPT ![a] = local.p[a]]
  /\ pc' = AfterWrite(a)
  /\ hist' = [hist EXCEPT !.acct[a] = local.p[a]]
  /\ UNCHANGED <<primask, local>>
  /\ UNCHANGED position_frame

\* history at the end of a position write: the position is known again if
\* no block is loaded
NoteSet(h, p) ==
  [h EXCEPT !.set_p = p, !.expect = p, !.moved = FALSE,
            !.clean = current_block = NULL]

\* CRITICAL_SECTION_END of st_set_position, and return
SetPositionExit ==
  /\ pc = "set_end"
  /\ primask' = FALSE
  /\ pc' = "idle"
  /\ local' = LocalInit
  /\ hist' = NoteSet(hist, local.p)
  /\ UNCHANGED count_position
  /\ UNCHANGED position_frame

\* st_set_e_position(e): entry and CRITICAL_SECTION_START
SetEPositionEnter(e) ==
  /\ AtRest
  /\ primask' = CriticalSectionStart
  /\ pc' = "sete_E"
  /\ local' = [local EXCEPT !.p[E_AXIS] = e]
  /\ UNCHANGED <<count_position, hist>>
  /\ UNCHANGED position_frame

\* count_position[E_AXIS] = e
SetEPositionWrite ==
  /\ pc = "sete_E"
  /\ count_position' = [count_position EXCEPT ![E_AXIS] = local.p[E_AXIS]]
  /\ pc' = "sete_end"
  /\ hist' = [hist EXCEPT !.acct[E_AXIS] = local.p[E_AXIS]]
  /\ UNCHANGED <<primask, local>>
  /\ UNCHANGED position_frame

\* CRITICAL_SECTION_END of st_set_e_position, and return
SetEPositionExit ==
  /\ pc = "sete_end"
  /\ primask' = FALSE
  /\ pc' = "idle"
  /\ local' = LocalInit
  /\ hist' = [hist EXCEPT !.set_p[E_AXIS] = local.p[E_AXIS],
                          !.expect[E_AXIS] = local.p[E_AXIS],
                          !.clean = @ /\ current_block = NULL]
  /\ UNCHANGED count_position
  /\ UNCHANGED position_frame

\* st_get_position(axis): entry and CRITICAL_SECTION_START
GetPositionEnter(a) ==
  /\ AtRest
  /\ primask' = CriticalSectionStart
  /\ pc' = "get_read"
  /\ local' = [local EXCEPT !.axis = a]
  /\ UNCHANGED <<count_position, hist>>
  /\ UNCHANGED position_frame

\* count_pos = count_position[axis]
GetPositionRead ==
  /\ pc = "get_read"
  /\ local' = [local EXCEPT !.count_pos = count_position[local.axis]]
  /\ pc' = "get_end"
  /\ UNCHANGED <<primask, count_position, hist>>
  /\ UNCHANGED position_frame

\* CRITICAL_SECTION_END of st_get_position, and return count_pos
GetPositionExit ==
  /\ pc = "get_end"
  /\ primask' = FALSE
  /\ pc' = "idle"
  /\ local' = LocalInit
  /\ UNCHANGED <<count_position, hist>>
  /\ UNCHANGED position_frame

\* st_synchronize(): entry
SynchronizeEnter ==
  /\ AtRest
  /\ pc' = "sync"
  /\ hist' = [hist EXCEPT !.sync_wait = blocks_queued(queue)]
  /\ UNCHANGED <<hs, Z_DUAL_ENDSTOPS, performing_homing, queue, cleaning_buffer_counter, endstops_trigsteps,
                 endstop_hit_bits, check_endstops, count_position, stepper_irq,
                 primask, local, isr_owned>>

\* a wait loop whose test never holds
SynchronizeTestNone(q) == FALSE

\* while (blocks_queued()) idle(): the loop's test
SynchronizeTest(q) == blocks_queued(q)

\* st_synchronize(): the test fails and the function returns
SynchronizeReturn ==
  /\ pc = "sync"
  /\ ~SynchronizeTest(queue)
  /\ pc' = "idle"
  /\ hist' = [hist EXCEPT !.syncs = Min(@ + 1, 1)]
  /\ UNCHANGED <<hs, Z_DUAL_ENDSTOPS, performing_homing, queue, cleaning_buffer_counter, endstops_trigsteps,
                 endstop_hit_bits, check_endstops, count_position, stepper_irq,
                 primask, local, isr_owned>>

\* quickStop(): cleaning_buffer_counter = 5000, interrupt still enabled
QuickStopSet ==
  /\ AtRest
  /\ hist.quickstops < 1
  /\ cleaning_buffer_counter' = CLEANING_TICKS
  /\ pc' = "qs_disable"
  /\ hist' = [hist EXCEPT !.quickstops = @ + 1,
                          !.inflight = IF current_block = NULL THEN 0
                                       ELSE current_block[1].id,
                          !.inflight_pulses = blk.pulses]
  /\ UNCHANGED <<hs, Z_DUAL_ENDSTOPS, performing_homing, queue, endstops_trigsteps, endstop_hit_bits, check_endstops,
                 count_position, stepper_irq, primask, local, isr_owned>>

\* DISABLE_STEPPER_DRIVER_INTERRUPT()
QuickStopDisable ==
  /\ pc = "qs_disable"
  /\ stepper_irq' = FALSE
  /\ pc' = "qs_drain"
  /\ UNCHANGED <<hs, Z_DUAL_ENDSTOPS, performing_homing, queue, cleaning_buffer_counter, endstops_trigsteps,
                 endstop_hit_bits, check_endstops, count_position, primask, local,
                 hist, isr_owned>>

\* while (blocks_queued()) plan_discard_current_block(): one pass
QuickStopDrain ==
  /\ pc = "qs_drain"
  /\ blocks_queued(queue)
  /\ queue' = plan_discard_current_block(queue)
  /\ UNCHANGED <<hs, Z_DUAL_ENDSTOPS, performing_homing, cleaning_buffer_counter, endstops_trigsteps, endstop_hit_bits,
                 check_endstops, count_position, stepper_irq, primask, pc, local,
                 hist, isr_owned>>

\* a quickStop that also zeroes the Bresenham counters
QuickStopClearCounters ==
  /\ pc = "qs_drain"
  /\ ~blocks_queued(queue)
  /\ current_block' = NULL
  /\ counter' = [a \in Axes |-> 0]
  /\ pc' = "qs_enable"
  /\ hist' = [hist EXCEPT !.clean = @ /\ current_block = NULL]
  /\ UNCHANGED <<hs, Z_DUAL_ENDSTOPS, performing_homing, queue, cleaning_buffer_counter, endstops_trigsteps,
                 endstop_hit_bits, check_endstops, count_position, stepper_irq,
                 primask, local, out_bits, step_events_completed, trap,
                 old_endstop_bits, count_direction, dir_pin, TC_RC, tick, blk>>

\* the loop ends; current_block = NULL
QuickStopClear ==
  /\ pc = "qs_drain"
  /\ ~blocks_queued(queue)
  /\ current_block' = NULL
  /\ pc' = "qs_enable"
  /\ hist' = [hist EXCEPT !.clean = @ /\ current_block = NULL]
  /\ UNCHANGED <<hs, Z_DUAL_ENDSTOPS, performing_homing, queue, cleaning_buffer_counter, endstops_trigsteps,
                 endstop_hit_bits, check_endstops, count_position, stepper_irq,
                 primask, local, out_bits, counter, step_events_completed, trap,
                 old_endstop_bits, count_direction, dir_pin, TC_RC, tick, blk>>

\* ENABLE_STEPPER_DRIVER_INTERRUPT(), and return
QuickStopEnable ==
  /\ pc = "qs_enable"
  /\ stepper_irq' = TRUE
  /\ pc' = "idle"
  /\ UNCHANGED <<hs, Z_DUAL_ENDSTOPS, performing_homing, queue, cleaning_buffer_counter, endstops_trigsteps,
                 endstop_hit_bits, check_endstops, count_position, primask, local,
                 hist, isr_owned>>

\* ------------------------------------------------------- initial state
\* the state st_init() leaves: endstops enabled, the stepper interrupt
\* enabled, directions set from out_bits = 0; statics are zero
\* the record of a babystep call, before any call
NoBabystep ==
  [axis |-> X_AXIS, direction |-> FALSE, delta |-> FALSE, io |-> <<>>,
   at |-> <<0, 0>>]

HistInit ==
  [enqueued |-> 0, quickstops |-> 0, syncs |-> 0, inflight |-> 0,
   inflight_pulses |-> [a \in Axes |-> 0],
   set_p |-> [a \in Axes |-> 0], expect |-> [a \in Axes |-> 0],
   moved |-> FALSE, clean |-> TRUE, flushes |-> 0, sync_wait |-> FALSE,
   babysteps |-> 0, baby |-> NoBabystep, acct |-> [a \in Axes |-> 0]]

NoBlock ==
  [id |-> 0, block |-> MkBlock([a \in Axes |-> 0], {}, Cruise(1000, 0)),
   pulses |-> [a \in Axes |-> 0], cum |-> <<>>, truncated |-> FALSE,
   released |-> FALSE, delta |-> [a \in Axes |-> 0]]

InitBuild(dual) ==
  /\ hs \in BOOLEAN
  /\ Z_DUAL_ENDSTOPS = dual
  /\ performing_homing = FALSE
  /\ queue = <<>>
  /\ current_block = NULL
  /\ out_bits = {}
  /\ cleaning_buffer_counter = 0
  /\ counter = [a \in Axes |-> 0]
  /\ step_events_completed = 0
  /\ trap = [acc_step_rate |-> 0, acceleration_time |-> 0, deceleration_time |-> 0,
             step_loops |-> 0, OCR1A_nominal |-> 0, step_loops_nominal |-> 0]
  /\ endstops_trigsteps = [a \in EndstopAxes |-> 0]
  /\ endstop_hit_bits = {}
  /\ old_endstop_bits = {}
  /\ check_endstops = TRUE
  /\ count_position = [a \in Axes |-> 0]
  /\ count_direction = [a \in Axes |-> 1]
  /\ dir_pin = [a \in Axes |-> DirLevel(a, FALSE)]
  /\ TC_RC = 0
  /\ stepper_irq = TRUE
  /\ primask = FALSE
  /\ pc = "idle"
  /\ local = LocalInit
  /\ tick = [TickEntry EXCEPT !.cleaning_in = 0]
  /\ blk = NoBlock
  /\ hist = HistInit

\* the build with one Z endstop at each end
Init == InitBuild(FALSE)

\* the build with Z_DUAL_ENDSTOPS
InitDual == InitBuild(TRUE)

\* the position functions of the main loop
PositionCalls ==
  \/ \E p \in PositionSamples : SetPositionEnter(p)
  \/ \E a \in Axes : SetPositionWrite(a)
  \/ SetPositionExit
  \/ \E e \in EPositionSamples : SetEPositionEnter(e)
  \/ SetEPositionWrite
  \/ SetEPositionExit
  \/ \E a \in Axes : GetPositionEnter(a)
  \/ GetPositionRead
  \/ GetPositionExit

\* the directions a block with these steps may have: only an axis that
\* moves has its bit set, and E goes the way Z goes
Directions(v) ==
  {d \in SUBSET {a \in Axes : v[a] > 0} : (E_AXIS \in d) = (Z_AXIS \in d)}

\* the directions of the blocks of the position mirror: all axes forward,
\* X and Z backward, all axes backward
PairDirections(v) ==
  {d \cap {a \in Axes : v[a] > 0} : d \in {{}, {X_AXIS, Z_AXIS}, Axes}}

\* ---- motion and endstops: blocks of every shape, one at a time
Profiles(sec) == {Cruise(1000, sec), Cruise(16000, sec), Trapezoid(sec)}

Blocks ==
  UNION {{MkBlock(v, d, p) : d \in Directions(v), p \in Profiles(MaxOf(v))} :
         v \in StepVectors}

PairProfiles(sec) == {Cruise(1000, sec), Cruise(32000, sec)}

PairBlocks ==
  UNION {{MkBlock(v, d, p) : d \in PairDirections(v), p \in PairProfiles(MaxOf(v))} :
         v \in PairVectors}

Next ==
  \/ StepperISR(AxisLevels, {0})
  \/ \E b \in Blocks : Enqueue(b, 1)
  \/ \E c \in BOOLEAN : enable_endstops(c)

Spec == Init /\ [][Next]_vars

\* ---- the position mirror: position calls interleaved with motion, no
\* endstop switch closes
NextPos ==
  \/ StepperISR(NoLevels, TcCvSamples)
  \/ \E b \in PairBlocks : Enqueue(b, 1)
  \/ PositionCalls

SpecPos == Init /\ [][NextPos]_vars

\* ---- quickStop and the flush window: a few blocks, enqueued before,
\* during and after the window; no endstop switch closes
FlushBlocks ==
  {MkBlock([a \in Axes |-> IF a = X_AXIS THEN MaxSteps ELSE 0], {},
           Cruise(1000, MaxSteps)),
   MkBlock([a \in Axes |-> IF a = Y_AXIS THEN 1 ELSE 0], {Y_AXIS},
           Cruise(1000, 1))}

quickStop ==
  \/ QuickStopSet
  \/ QuickStopDisable
  \/ QuickStopDrain
  \/ QuickStopClear
  \/ QuickStopEnable

NextQS ==
  \/ StepperISR(NoLevels, TcCvSamples)
  \/ \E b \in FlushBlocks : Enqueue(b, MaxBlocks)
  \/ quickStop

SpecQS == Init /\ [][NextQS]_vars

\* ---- st_synchronize: the main loop enqueues blocks and waits for them;
\* the timer keeps raising the stepper interrupt while it is enabled, and
\* the wait loop keeps testing
SyncBlocks ==
  {MkBlock([a \in Axes |-> IF a = X_AXIS THEN MaxSteps ELSE 1], {Z_AXIS},
           Trapezoid(MaxSteps)),
   MkBlock([a \in Axes |-> IF a = Y_AXIS THEN MaxSteps ELSE 0], {Y_AXIS},
           Cruise(16000, MaxSteps)),
   MkBlock([a \in Axes |-> IF a = E_AXIS THEN 1 ELSE 0], {},
           Cruise(1000, 1))}

\* while the main loop waits the X switches are open or closed
SyncLevels == {{}, {Endstop(X_AXIS, "MIN"), Endstop(X_AXIS, "MAX")}}

SyncISR == StepperISR(SyncLevels, {0})

NextSync ==
  \/ SyncISR
  \/ \E b \in SyncBlocks : Enqueue(b, MaxBlocks)
  \/ SynchronizeEnter
  \/ SynchronizeReturn

FairSpec ==
  Init /\ [][NextSync]_vars /\ WF_vars(SyncISR) /\ WF_vars(SynchronizeReturn)

\* ---- step and direction pins: two blocks one after the other, at rates
\* that take one, two and four step events per invocation with the high
\* speed loop, and with the timer read early or late
PulseVectors ==
  {[a \in Axes |-> IF a \in {X_AXIS, E_AXIS} THEN MaxSteps ELSE 1],
   [a \in Axes |-> IF a \in {Y_AXIS, Z_AXIS} THEN 2 ELSE 0]}

PulseProfiles(sec) == {Cruise(1000, sec), Cruise(16000, sec), Cruise(32000, sec)}

PulseBlocks ==
  UNION {{MkBlock(v, d, p) : d \in PairDirections(v), p \in PulseProfiles(MaxOf(v))} :
         v \in PulseVectors}

NextPins ==
  \/ StepperISR(NoLevels, TcCvSamples)
  \/ \E b \in PulseBlocks : Enqueue(b, MaxBlocks)

SpecPins == Init /\ [][NextPins]_vars

\* ---- the endstop accessors: two blocks, each towards a switch that may be
\* closed, while the main loop reports and clears the hits
HitBlocks ==
  {MkBlock([a \in Axes |-> IF a = X_AXIS THEN 2 ELSE 0], {}, Cruise(1000, 2)),
   MkBlock([a \in Axes |-> IF a = Y_AXIS THEN 2 ELSE 0], {Y_AXIS}, Cruise(1000, 2))}

HitLevels == {{}, {Endstop(X_AXIS, "MAX"), Endstop(Y_AXIS, "MIN")}}

checkHitEndstops ==
  \/ CheckHitEndstopsTest
  \/ CheckHitEndstopsReport
  \/ CheckHitEndstopsClear

NextHit ==
  \/ StepperISR(HitLevels, {0})
  \/ \E b \in HitBlocks : Enqueue(b, MaxBlocks)
  \/ endstops_hit_on_purpose
  \/ checkHitEndstops

SpecHit == Init /\ [][NextHit]_vars

\* ---- the timer: one block, slow or faster than the timer can follow,
\* the counter read early or late, and quickStop for the flush path
TimerBlocks ==
  {MkBlock([a \in Axes |-> IF a = X_AXIS THEN MaxSteps ELSE 0], {},
           Cruise(1000, MaxSteps)),
   MkBlock([a \in Axes |-> IF a = Y_AXIS THEN MaxSteps ELSE 0], {Y_AXIS},
           Cruise(32000, MaxSteps))}

NextTimer ==
  \/ StepperISR(NoLevels, TcCvSamples)
  \/ \E b \in TimerBlocks : Enqueue(b, 1)
  \/ quickStop

SpecTimer == Init /\ [][NextTimer]_vars

\* ---- babystep: calls between the invocations that run two blocks of
\* different directions
NextBaby ==
  \/ StepperISR(NoLevels, {0})
  \/ \E b \in HitBlocks : Enqueue(b, MaxBlocks)
  \/ \E axis \in Axes, direction \in BOOLEAN, delta \in BOOLEAN :
       babystep(axis, direction, delta)

SpecBaby == Init /\ [][NextBaby]_vars

\* ---- the trapezoid: one block on X of MaxSteps step events, of every
\* split into acceleration, cruise and deceleration, slow or fast to
\* accelerate; no endstop switch closes
Ramp(initial, nominal, final, until, after, rate) ==
  [initial_rate |-> initial, nominal_rate |-> nominal, final_rate |-> final,
   accelerate_until |-> until, decelerate_after |-> after,
   acceleration_rate |-> rate]

\* acceleration_rate: a quarter of a step/s and 1/4096 of a step/s per
\* timer count
AccelerationRates == {1073741824, 1048576}

\* blocks of one rate throughout
FlatProfiles ==
  {Ramp(r, r, r, u, d, ar) :
     r \in {500, 16000}, u \in 0..MaxSteps, d \in 0..MaxSteps,
     ar \in AccelerationRates}

\* blocks that enter and leave below their nominal rate
RampProfiles ==
  {Ramp(i, n, f, u, d, ar) :
     i \in {500, 1000}, n \in {1200, 2000}, f \in {500, 1000},
     u \in 0..MaxSteps, d \in 0..MaxSteps, ar \in AccelerationRates}

TrapBlocks ==
  {MkBlock([a \in Axes |-> IF a = X_AXIS THEN MaxSteps ELSE 0], {}, p) :
     p \in {q \in FlatProfiles \cup RampProfiles :
              q.accelerate_until <= q.decelerate_after}}

NextTrap ==
  \/ StepperISR(NoLevels, {0})
  \/ \E b \in TrapBlocks : Enqueue(b, 1)

SpecTrap == Init /\ [][NextTrap]_vars

\* ---- two Z endstops at each end: blocks that move Z down or up while any
\* of the four switches may read closed, in and out of homing
DualBlocks ==
  {MkBlock([a \in Axes |-> IF a = Z_AXIS THEN MaxSteps ELSE 0], d,
           Cruise(1000, MaxSteps)) : d \in {{}, {Z_AXIS}}}

DualLevels ==
  SUBSET {Endstop(Z_AXIS, "MIN"), Endstop(Z2, "MIN"),
          Endstop(Z_AXIS, "MAX"), Endstop(Z2, "MAX")}

NextDual ==
  \/ StepperISR(DualLevels, {0})
  \/ \E b \in DualBlocks : Enqueue(b, MaxBlocks)
  \/ \E state \in BOOLEAN : In_Homing_Process(state)

SpecDual == InitDual /\ [][NextDual]_vars

\* ---- position accounting: blocks forward and backward that an endstop may
\* cut short or quickStop abandon, and positions set between them
AcctBlocks ==
  {MkBlock([a \in Axes |-> CASE a = X_AXIS -> 2 [] a = E_AXIS -> 1 [] OTHER -> 0],
           {}, Cruise(1000, 2)),
   MkBlock([a \in Axes |-> CASE a = Y_AXIS -> 2 [] a = Z_AXIS -> 1 [] OTHER -> 0],
           {Y_AXIS, Z_AXIS}, Cruise(1000, 2))}

\* the positions are set between moves: st_set_position before the first
\* block, st_set_e_position after it
BetweenMoves(done) ==
  ~blocks_queued(queue) /\ current_block = NULL /\ hist.enqueued = done

SetPositionCalls ==
  \/ \E p \in PositionSamples : BetweenMoves(0) /\ SetPositionEnter(p)
  \/ \E a \in Axes : SetPositionWrite(a)
  \/ SetPositionExit
  \/ \E e \in EPositionSamples : BetweenMoves(1) /\ SetEPositionEnter(e)
  \/ SetEPositionWrite
  \/ SetEPositionExit

\* quickStop is called while the second block is being traced
NextAcct ==
  \/ StepperISR(HitLevels, {0})
  \/ \E b \in AcctBlocks : Enqueue(b, MaxBlocks)
  \/ (current_block # NULL /\ blk.id = MaxBlocks /\ QuickStopSet)
  \/ QuickStopDisable
  \/ QuickStopDrain
  \/ QuickStopClear
  \/ QuickStopEnable
  \/ SetPositionCalls

SpecAcct == Init /\ [][NextAcct]_vars

\* ---- endstop gating: blocks that move X forward or Y backward while the
\* switches they move away from, or the ones they move toward, read closed
AwayLevels ==
  {Endstop(X_AXIS, "MIN"), Endstop(Y_AXIS, "MAX"), Endstop(Z_AXIS, "MIN"),
   Endstop(Z_AXIS, "MAX")}

TowardLevels == {Endstop(X_AXIS, "MAX"), Endstop(Y_AXIS, "MIN")}

GateLevels == {{}, AwayLevels, TowardLevels}

NextGate ==
  \/ StepperISR(GateLevels, {0})
  \/ \E b \in HitBlocks : Enqueue(b, MaxBlocks)

SpecGate == Init /\ [][NextGate]_vars

\* ================================================================ claims
\* the step pulses the last invocation emitted on axis a
StepsInTick(a) ==
  Cardinality({i \in DOMAIN tick.io :
                 tick.io[i][1] = "step" /\ tick.io[i][2] = a /\ tick.io[i][3]})

\* the axes of the last loaded block that step on every step event
Dominant == {a \in Axes : blk.block.steps[a] = blk.block.step_event_count}

\* the main loop is inside a critical section of the position functions
MaskedPcs ==
  {"set_X", "set_Y", "set_Z", "set_E", "set_end", "sete_E", "sete_end",
   "get_read", "get_end"}

\* C1: a block the interrupt runs to completion, untruncated, has moved
\* count_position by +steps[a] on every axis whose direction bit is 0 and by
\* -steps[a] on every axis whose bit is 1; and st_get_position, called after
\* st_set_position(p) and the blocks run whole since then, returns p plus
\* their signed steps.  (SpecPos)
C1_SignedStepsApplied ==
  /\ (blk.released /\ ~blk.truncated =>
        \A a \in Axes : blk.delta[a] = SignedSteps(blk.block, a))
  /\ (pc = "get_end" /\ hist.clean /\ current_block = NULL =>
        local.count_pos = hist.expect[local.axis])

\* C1 witness: st_set_position(5, ..), a block of MaxSteps steps backward on
\* X run to its end, and st_get_position(X) holding 5 - MaxSteps
C1_Witness ==
  /\ pc = "get_end" /\ hist.clean /\ current_block = NULL
  /\ blk.released /\ ~blk.truncated
  /\ blk.block.steps[X_AXIS] = MaxSteps /\ X_AXIS \in blk.block.direction_bits
  /\ local.axis = X_AXIS /\ hist.set_p[X_AXIS] = 5
  /\ local.count_pos = 5 - MaxSteps

\* C2: an invocation that confirms an endstop on an axis (asserted now and
\* in the previous sample, the axis moving towards it) emits no step pulse
\* on that axis.  (Spec)
C2_NoStepOnceConfirmed == \A a \in tick.hits : StepsInTick(a) = 0

\* C3: in the invocation that confirms an endstop on axis a of a block with
\* steps[a] > 0, endstops_trigsteps[a] is count_position[a] as it was at the
\* confirmation (before the steps of that invocation), the axis's bit is set
\* in endstop_hit_bits, and the block is released in that invocation:
\* current_block is null and plan_discard_current_block was called once.
\* (Spec)
C3_EndstopLatchedAndReleased ==
  \A a \in tick.hits :
    /\ blk.block.steps[a] > 0
    /\ endstops_trigsteps[a] = count_position[a] - count_direction[a] * StepsInTick(a)
    /\ EndstopHitBit(a) \in endstop_hit_bits
    /\ current_block = NULL
    /\ blk.released
    /\ tick.discards = 1

\* C3 witness: an invocation confirmed the X endstop, stepped X once more
\* and released the block short of its end
C3_Witness ==
  /\ X_AXIS \in tick.hits
  /\ StepsInTick(X_AXIS) = 1
  /\ endstops_trigsteps[X_AXIS] # count_position[X_AXIS]
  /\ blk.pulses[X_AXIS] < blk.block.steps[X_AXIS]
  /\ current_block = NULL /\ queue = <<>>

\* C4: every value step_events_completed takes during an invocation of a
\* block is at most the block's step_event_count, the values do not
\* decrease, and when it ends equal to step_event_count the block is
\* released in that invocation.  (Spec)
C4_CompletedWithinCount ==
  tick.path = "block" =>
    /\ \A i \in DOMAIN tick.sec_log : tick.sec_log[i] <= blk.block.step_event_count
    /\ \A i, j \in DOMAIN tick.sec_log : i <= j => tick.sec_log[i] <= tick.sec_log[j]
    /\ (step_events_completed = blk.block.step_event_count => blk.released)

\* C9: for an untruncated block and every axis a that moves, the pulses
\* emitted on a after step event k differ from floor(k * steps[a] /
\* step_event_count) by at most one.  (Spec)
C9_BresenhamFair ==
  ~blk.truncated =>
    \A k \in DOMAIN blk.cum : \A a \in Axes :
      blk.block.steps[a] > 0 =>
        Abs(blk.cum[k][a]
            - ((k * blk.block.steps[a]) \div blk.block.step_event_count)) <= 1

\* C9 witness: a block run whole on which a minor axis was one pulse ahead
\* of the floor after some step event
C9_Witness ==
  /\ blk.released /\ ~blk.truncated
  /\ Len(blk.cum) = MaxSteps
  /\ \E k \in DOMAIN blk.cum : \E a \in Axes :
       /\ 0 < blk.block.steps[a] /\ blk.block.steps[a] < blk.block.step_event_count
       /\ blk.cum[k][a]
            = ((k * blk.block.steps[a]) \div blk.block.step_event_count) + 1

\* C10 as stated: at the end of every invocation of a block the pulses
\* emitted on the dominant axis equal step_events_completed.  (Spec)
C10_DominantPulsesAlways ==
  tick.path = "block" => \A a \in Dominant : blk.pulses[a] = step_events_completed

\* C10 amended: at the end of an invocation of a block that confirmed no
\* endstop the pulses emitted on the dominant axis equal
\* step_events_completed; an invocation that confirmed one ends with
\* step_events_completed = step_event_count + 1 and at most step_event_count
\* pulses on the dominant axis.  (Spec)
C10_DominantPulsesUnlessConfirmed ==
  tick.path = "block" =>
    \A a \in Dominant :
      IF tick.hits = {}
      THEN blk.pulses[a] = step_events_completed
      ELSE /\ step_events_completed = blk.block.step_event_count + 1
           /\ blk.pulses[a] <= blk.block.step_event_count

\* C10 witness: the invocation that loaded a block took two step events in
\* the high speed loop, no endstop confirmed, two pulses on dominant X
C10_Witness ==
  /\ hs /\ tick.path = "block" /\ tick.hits = {}
  /\ tick.sec_log = <<0, 1, 2>>
  /\ X_AXIS \in Dominant
  /\ blk.pulses[X_AXIS] = 2 /\ step_events_completed = 2

\* C5: the invocation that counts cleaning_buffer_counter down to 0 after a
\* quickStop leaves the queue empty and current_block null, whatever the
\* main loop enqueued during the flush window; and the block that was in
\* flight when quickStop was called has no pulse more than it had then.
\* (SpecQS)
C5_FlushedWhenCounted ==
  [][/\ (cleaning_buffer_counter = 1 /\ cleaning_buffer_counter' = 0 =>
           queue' = <<>> /\ current_block' = NULL)
     /\ (hist'.quickstops = 1 /\ hist'.inflight # 0 /\ blk'.id = hist'.inflight =>
           blk'.pulses = hist'.inflight_pulses)]_vars

\* C6: an invocation entered with cleaning_buffer_counter > 0 takes the
\* flush path: current_block null, one plan_discard_current_block, the
\* counter one less, one call HAL_timer_stepper_count(HAL_TIMER_RATE / 200)
\* that leaves TC_RC at that value (the latency being at most MaxLatency)
\* and nothing else on the pins, no step pulse and count_position as it was; after a quickStop the flush invocations and the
\* counter add up to 5000, so the first invocation on another path comes
\* after exactly 5000 of them.  (SpecQS)
C6_FlushInvocation ==
  /\ [](hist.quickstops = 1 =>
          hist.flushes + cleaning_buffer_counter = CLEANING_TICKS)
  /\ [][tick' # tick =>
          IF cleaning_buffer_counter > 0
          THEN /\ tick'.path = "flush"
               /\ current_block' = NULL
               /\ tick'.discards = 1
               /\ queue' = plan_discard_current_block(queue)
               /\ cleaning_buffer_counter' = cleaning_buffer_counter - 1
               /\ TC_RC' = HAL_TIMER_RATE \div FLUSH_HZ
               /\ count_position' = count_position
               /\ blk'.pulses = blk.pulses
               /\ tick'.io = <<<<"rc", HAL_TIMER_RATE \div FLUSH_HZ,
                                  HAL_TIMER_RATE \div FLUSH_HZ>>>>
          ELSE /\ tick'.path \in {"block", "idle"}
               /\ (hist.quickstops = 1 => hist.flushes = CLEANING_TICKS)]_vars

\* C6 witness: 5000 flush invocations after the quickStop, and the next
\* invocation loaded a block enqueued meanwhile
C6_Witness ==
  /\ hist.quickstops = 1 /\ hist.flushes = CLEANING_TICKS
  /\ cleaning_buffer_counter = 0
  /\ tick.path = "block" /\ tick.loaded

\* C7: while the main loop is between CRITICAL_SECTION_START and
\* CRITICAL_SECTION_END of st_set_position, st_set_e_position or
\* st_get_position the stepper interrupt cannot be taken; and
\* st_get_position(axis), with no step taken by the interrupt since the last
\* st_set_position, returns the value set for that axis.  (SpecPos)
C7_PositionAccessMasked ==
  /\ (pc \in MaskedPcs => ~IsrCanFire)
  /\ (pc = "get_end" /\ ~hist.moved =>
        local.count_pos = hist.set_p[local.axis])

\* C7 witness: st_get_position(Y) holds the -3 that st_set_position set
\* while a queued block waits for the interrupt, which is held off
C7_Witness ==
  /\ pc = "get_end" /\ ~hist.moved
  /\ local.axis = Y_AXIS /\ hist.set_p[Y_AXIS] = -3 /\ local.count_pos = -3
  /\ blocks_queued(queue) /\ current_block = NULL
  /\ stepper_irq /\ primask

\* C8: st_synchronize returns only when no block is queued; and, the
\* interrupt firing and the loop testing, every call returns and every
\* queued block is released by the interrupt.  (FairSpec)
C8_SynchronizeReturns ==
  /\ [][pc = "sync" /\ pc' = "idle" => ~blocks_queued(queue)]_vars
  /\ (pc = "sync" ~> pc = "idle")
  /\ \A i \in 1..MaxBlocks :
       (\E k \in DOMAIN queue : queue[k].id = i) ~> (blk.id = i /\ blk.released)

\* C8 witness: a call that found blocks queued has returned, the queue
\* empty and the last block released
C8_Witness ==
  /\ pc = "idle" /\ hist.syncs = 1 /\ hist.sync_wait
  /\ queue = <<>> /\ current_block = NULL
  /\ blk.released /\ blk.id = MaxBlocks

\* the writes to step pins of the last invocation, in order
StepWrites == SelectSeq(tick.io, LAMBDA w : w[1] = "step")

\* the falling edges among the first n writes to step pins
FallsBefore(n) ==
  Cardinality({i \in 1..n : ~StepWrites[i][3]})

\* C11 as stated: in an invocation every rising edge written to a step pin
\* precedes every falling edge written to a step pin.  (SpecPins)
C11_RisingBeforeFalling ==
  \A i, j \in DOMAIN StepWrites :
    (StepWrites[i][3] /\ ~StepWrites[j][3]) => i < j

\* C11 amended: within each step event of an invocation the rising edges
\* precede the falling edges: a rising edge comes after the four falling
\* edges of each step event before it and before a falling edge on its own
\* pin; and an invocation of one step event has every rising edge before
\* every falling edge.  (SpecPins)
C11_RisingBeforeFallingPerEvent ==
  /\ \A j \in DOMAIN StepWrites :
       StepWrites[j][3] =>
         /\ FallsBefore(j) % 4 = 0
         /\ \E k \in DOMAIN StepWrites :
              k > j /\ ~StepWrites[k][3] /\ StepWrites[k][2] = StepWrites[j][2]
              /\ FallsBefore(k) <= FallsBefore(j) + 4
  /\ (FallsBefore(Len(StepWrites)) = 4 => C11_RisingBeforeFalling)

\* C11 witness: an invocation of three step events in the high speed loop
\* (step_loops is 4 and the block has three step events), X pulsed in each
C11_Witness ==
  /\ hs /\ tick.path = "block"
  /\ FallsBefore(Len(StepWrites)) = 12
  /\ StepsInTick(X_AXIS) = 3

\* the places of the writes to direction pins in an invocation's writes
DirWrites(io) == {i \in DOMAIN io : io[i][1] = "dir"}

\* C12: the interrupt writes direction pins only in an invocation that
\* acquires a block, before any step pin is written in that invocation; it
\* acquires a block only while current_block is null, so the block before is
\* released, all its step pulses (rising and falling edge) emitted.  (SpecPins)
C12_PulsesBeforeNextDirection ==
  [][tick' # tick =>
       /\ (DirWrites(tick'.io) # {} \/ tick'.loaded) =>
            /\ tick'.loaded
            /\ current_block = NULL
            /\ blk.id # 0 =>
                 /\ blk.released
                 /\ blk.pulses = blk.block.steps
       /\ \A i, j \in DOMAIN tick'.io :
            (tick'.io[i][1] = "dir" /\ tick'.io[j][1] = "step") => i < j]_vars

\* C12 witness: the second block is acquired after a first one that moved X
\* backward, and turns X forward before it steps X
C12_Witness ==
  /\ tick.loaded /\ tick.id = 2
  /\ hist.expect[X_AXIS] < 0
  /\ \E i \in DirWrites(tick.io) : tick.io[i][2] = X_AXIS /\ tick.io[i][3] = DirLevel(X_AXIS, FALSE)
  /\ StepsInTick(X_AXIS) >= 1

\* C13 as stated: while a block is current no bit of endstop_hit_bits goes
\* from set to clear, whatever the main loop calls.  (SpecHit)
C13_HitBitsKeptWithinBlock ==
  [][current_block # NULL => endstop_hit_bits \subseteq endstop_hit_bits']_vars

\* C13 amended: the interrupt never clears a bit of endstop_hit_bits; a bit
\* goes from set to clear only when the main loop clears them all, in
\* endstops_hit_on_purpose or at the end of checkHitEndstops.  (SpecHit)
C13_HitBitsClearedByMainOnly ==
  [][\/ endstop_hit_bits \subseteq endstop_hit_bits'
     \/ /\ tick' = tick
        /\ pc \in {"idle", "chk_clear"} /\ pc' = "idle"
        /\ endstop_hit_bits' = {}]_vars

\* C13 witness: the second block latches Y while the X bit of the first
\* block is still set
C13_Witness ==
  /\ blk.id = 2 /\ tick.hits = {Y_AXIS}
  /\ endstop_hit_bits = {EndstopHitBit(X_AXIS), EndstopHitBit(Y_AXIS)}

\* C14: every endstop bit that a checkHitEndstops call clears from
\* endstop_hit_bits was reported by that call, however the interrupt
\* interleaves with it.  (SpecHit)
C14_ClearedBitsReported ==
  [][pc = "chk_clear" /\ pc' = "idle" =>
       endstop_hit_bits \subseteq local.report]_vars

\* a step of the main loop that reads or writes a variable it shares with
\* the interrupt
MainSharedAccess ==
  /\ tick' = tick
  /\ \/ count_position' # count_position
     \/ endstop_hit_bits' # endstop_hit_bits
     \/ endstops_trigsteps' # endstops_trigsteps
     \/ cleaning_buffer_counter' # cleaning_buffer_counter
     \/ pc \in {"get_read", "chk_report", "chk_clear"}
     \/ pc = "idle" /\ pc' = "chk_report"

\* C15: every main-loop read or write of a variable shared with the
\* interrupt happens while the stepper interrupt cannot fire.  (SpecHit)
C15_SharedAccessMasked ==
  [][MainSharedAccess => ~IsrCanFire]_vars

\* C16 as stated: no step of the main loop reads or writes current_block,
\* the Bresenham counters, the trapezoid state or out_bits.  (SpecQS)
C16_OnlyIsrWrites ==
  [][tick' = tick =>
       UNCHANGED <<current_block, counter, step_events_completed, trap,
                   out_bits>>]_vars

\* C16 amended: the main loop writes neither the Bresenham counters, the
\* trapezoid state nor out_bits, and it writes current_block in one place:
\* quickStop sets it to NULL, while the stepper interrupt is disabled.
\* (SpecQS)
C16_OnlyQuickStopClearsBlock ==
  [][tick' = tick =>
       /\ UNCHANGED <<counter, step_events_completed, trap, out_bits>>
       /\ current_block' # current_block =>
            /\ current_block' = NULL
            /\ pc = "qs_drain" /\ pc' = "qs_enable"
            /\ ~IsrCanFire]_vars

\* C16 witness: quickStop has set current_block to NULL over a block the
\* interrupt had loaded and not released
C16_Witness ==
  /\ pc = "qs_enable" /\ current_block = NULL
  /\ tick.path = "block" /\ blk.id # 0 /\ ~blk.released
  /\ hist.inflight = blk.id

\* C17: an invocation entered with cleaning_buffer_counter 0, current_block
\* null and no block to get programs the timer with HAL_TIMER_RATE / 1000
\* and does nothing else: it writes no step or direction pin and leaves
\* count_position, endstop_hit_bits, endstops_trigsteps, old_endstop_bits
\* and step_events_completed (and the rest of the interrupt's state) as
\* they were.  (Spec)
C17_IdleTickOnlyRearms ==
  [][(/\ tick' # tick
      /\ cleaning_buffer_counter = 0
      /\ current_block = NULL
      /\ plan_get_current_block(queue) = NULL) =>
       /\ tick'.path = "idle"
       /\ TC_RC' = HAL_TIMER_RATE \div 1000
       /\ tick'.io = << <<"rc", HAL_TIMER_RATE \div 1000, HAL_TIMER_RATE \div 1000>> >>
       /\ UNCHANGED <<count_position, endstop_hit_bits, endstops_trigsteps,
                      old_endstop_bits, step_events_completed, dir_pin,
                      count_direction, out_bits, counter, trap, current_block,
                      queue, cleaning_buffer_counter, blk>>]_vars

\* C17 witness: an idle invocation after a block that an endstop cut short,
\* the hit latched, the last sample and the position kept
C17_Witness ==
  /\ tick.path = "idle" /\ TC_RC = HAL_TIMER_RATE \div 1000
  /\ blk.released /\ blk.truncated
  /\ endstop_hit_bits # {} /\ old_endstop_bits # {}
  /\ \E a \in Axes : count_position[a] # 0

\* the places of the writes to the timer's compare register in the last
\* invocation's writes
RcWrites == {i \in DOMAIN tick.io : tick.io[i][1] = "rc"}

\* the interval the last invocation asked for, by the path it took
Requested ==
  CASE tick.path = "flush" -> HAL_TIMER_RATE \div 200
    [] tick.path = "idle" -> HAL_TIMER_RATE \div 1000
    [] OTHER -> tick.timer

\* C18: every invocation, whichever path it takes, programs the compare
\* register exactly once, with the larger of the interval it asks for and
\* the counter's reading + 42: the interval itself when that is at least
\* the reading + 42, and never a value at or below the reading.  (SpecTimer)
C18_TimerProgrammedOnceGuarded ==
  tick.path # "none" =>
    /\ Cardinality(RcWrites) = 1
    /\ \A i \in RcWrites :
         /\ tick.io[i][2] = Requested
         /\ tick.io[i][3] = TC_RC
         /\ \E cv \in TcCvSamples :
              /\ TC_RC = Max(Requested, cv + 42)
              /\ (Requested >= cv + 42 => TC_RC = Requested)
              /\ TC_RC > cv

\* C18 witness: a block invocation asks for fewer counts than the counter
\* already reads, and the register gets the reading + 42
C18_Witness ==
  /\ tick.path = "block"
  /\ Requested < MaxLatency
  /\ TC_RC = MaxLatency + 42

\* the rising edges a babystep call wrote to the step pin of axis a
BabyPulses(c, a) ==
  Cardinality({i \in DOMAIN c.io :
                 c.io[i][1] = "step" /\ c.io[i][2] = a /\ c.io[i][3]})

\* the writes of a babystep call to the pins of axis a, in order
BabyWrites(c, a) == SelectSeq(c.io, LAMBDA w : w[2] = a)

\* the axes a babystep call steps: the axis asked for when it is X, Y or Z,
\* the three towers for Z in a DELTA build, none for another axis
BabyAxes(c) ==
  CASE c.axis \in {X_AXIS, Y_AXIS} -> {c.axis}
    [] c.axis = Z_AXIS -> IF c.delta THEN {X_AXIS, Y_AXIS, Z_AXIS} ELSE {Z_AXIS}
    [] OTHER -> {}

\* a babystep call leaves count_position, count_direction, out_bits and the
\* level of every direction pin as they were
BabyFrame == UNCHANGED <<count_position, count_direction, out_bits, dir_pin>>

\* C19 as stated: a babystep call emits one step pulse, on the axis asked
\* for, and leaves count_position, count_direction, out_bits and the
\* direction pins as they were.  (SpecBaby)
C19_BabystepOnePulse ==
  [][hist'.babysteps # hist.babysteps =>
       /\ \A a \in Axes :
            BabyPulses(hist'.baby, a) = IF a = hist'.baby.axis THEN 1 ELSE 0
       /\ BabyFrame]_vars

\* C19 amended: a babystep call emits one step pulse on each axis it steps
\* (the axis asked for when that is X, Y or Z; X, Y and Z together for Z in
\* a DELTA build; none for any other axis), each pulse written as enable, direction, rising
\* edge, falling edge, direction as it was before the call, and leaves count_position, count_direction, out_bits
\* and the direction pins as they were.  (SpecBaby)
C19_BabystepPulsesAndRestores ==
  [][hist'.babysteps # hist.babysteps =>
       LET c == hist'.baby IN
       /\ \A a \in Axes : BabyPulses(c, a) = IF a \in BabyAxes(c) THEN 1 ELSE 0
       /\ \A a \in Axes :
            BabyWrites(c, a) =
              IF a \in BabyAxes(c)
              THEN << <<"enable", a, TRUE>>,
                      <<"dir", a, Xor(Xor(INVERT_DIR[a], c.direction),
                                      c.axis = Z_AXIS /\ BABYSTEP_INVERT_Z)>>,
                      <<"step", a, TRUE>>,
                      <<"step", a, FALSE>>,
                      <<"dir", a, dir_pin[a]>> >>
              ELSE <<>>
       /\ BabyFrame]_vars

\* C19 witness: a babystep of Y against the direction the last block left
\* on the Y pin, after that block moved Y
C19_Witness ==
  /\ hist.babysteps > 0 /\ hist.baby.axis = Y_AXIS
  /\ BabyPulses(hist.baby, Y_AXIS) = 1
  /\ hist.baby.io[2] = <<"dir", Y_AXIS, ~dir_pin[Y_AXIS]>>
  /\ count_position[Y_AXIS] # 0

\* C20: while check_endstops is false no invocation samples the endstops:
\* it leaves endstop_hit_bits, endstops_trigsteps and old_endstop_bits as
\* they were and truncates no block, whatever the pins read; while it is
\* true (as it is after st_init) every invocation that has a current block
\* takes a sample into old_endstop_bits and latches exactly the axes whose
\* selected endstop reads triggered in this sample and in the one before
\* and that the block moves.  (Spec)
C20_EndstopsSampledWhenEnabled ==
  [][tick' # tick =>
       /\ ~check_endstops =>
            /\ UNCHANGED <<endstop_hit_bits, endstops_trigsteps, old_endstop_bits>>
            /\ tick'.hits = {}
            /\ ~(tick'.path = "block" /\ blk'.truncated)
       /\ (check_endstops /\ tick'.path = "block") =>
            /\ \E asserted \in AxisLevels :
                 old_endstop_bits' = SampleEndstops(out_bits', asserted)
            /\ \A a \in EndstopAxes :
                 a \in tick'.hits <=>
                   /\ Endstop(a, Gated(out_bits', a)) \in old_endstop_bits'
                   /\ Endstop(a, Gated(out_bits', a)) \in old_endstop_bits
                   /\ blk'.block.steps[a] > 0]_vars

\* C20 witness: with check_endstops false a block has run to its end,
\* untruncated, over a sample taken before that still shows a switch closed
C20_Witness ==
  /\ ~check_endstops
  /\ tick.path = "block" /\ blk.released /\ ~blk.truncated
  /\ old_endstop_bits # {} /\ endstop_hit_bits = {}

\* the last loaded block has one rate throughout
Flat == /\ blk.block.initial_rate = blk.block.nominal_rate
        /\ blk.block.final_rate = blk.block.nominal_rate

RatesOrdered == /\ blk.block.initial_rate <= blk.block.nominal_rate
                /\ blk.block.final_rate <= blk.block.nominal_rate

\* C22 as stated: after every invocation of a block with initial_rate and
\* final_rate at or below nominal_rate, acc_step_rate lies between
\* final_rate and nominal_rate.  (SpecTrap)
C22_RateWithinFinalAndNominal ==
  (tick.path = "block" /\ RatesOrdered) =>
    /\ blk.block.final_rate <= trap.acc_step_rate
    /\ trap.acc_step_rate <= blk.block.nominal_rate

\* C22 amended: after every invocation of such a block acc_step_rate lies
\* between initial_rate and nominal_rate; the rate of an invocation in the
\* deceleration branch lies between final_rate and the larger of
\* acc_step_rate and final_rate.  (SpecTrap)
C22_RateWithinInitialAndNominal ==
  (tick.path = "block" /\ RatesOrdered) =>
    /\ blk.block.initial_rate <= trap.acc_step_rate
    /\ trap.acc_step_rate <= blk.block.nominal_rate
    /\ tick.phase = "accel" => tick.rate = trap.acc_step_rate
    /\ tick.phase = "decel" =>
         /\ blk.block.final_rate <= tick.rate
         /\ tick.rate <= Max(trap.acc_step_rate, blk.block.final_rate)

\* C22 witness: a block that enters at 500 and leaves at 1000 is in its
\* acceleration branch at a rate between the two
C22_Witness ==
  /\ tick.path = "block" /\ tick.phase = "accel"
  /\ blk.block.initial_rate = 500 /\ blk.block.final_rate = 1000
  /\ 500 < trap.acc_step_rate /\ trap.acc_step_rate < 1000

C24_LatchNeedsTwoFreshSamples ==
  [][(tick' # tick /\ tick'.hits # {}) =>
       /\ ~tick'.loaded
       /\ tick.path = "block" /\ tick.id = tick'.id]_vars

\* the endstop of axis a on the side the direction bits out move toward
Ahead(out, a) == Endstop(a, IF a \in out THEN "MIN" ELSE "MAX")

\* C25: an endstop the block does not move toward never latches or
\* truncates it.  The stored sample holds only endstops on the side the
\* direction bits select; an axis the block does not move, or whose
\* selected endstop is not in both samples, is not latched, keeps its
\* endstops_trigsteps and its bit of endstop_hit_bits; and
\* step_events_completed is forced to the end only when an axis is
\* latched.  (SpecGate)
C25_OnlyEndstopAheadLatches ==
  [][tick' # tick =>
       /\ tick'.path = "block" =>
            old_endstop_bits' \subseteq {Ahead(out_bits', a) : a \in EndstopAxes}
       /\ \A a \in EndstopAxes :
            (\/ blk'.block.steps[a] = 0
             \/ Ahead(out_bits', a) \notin old_endstop_bits
             \/ Ahead(out_bits', a) \notin old_endstop_bits') =>
              /\ a \notin tick'.hits
              /\ endstops_trigsteps'[a] = endstops_trigsteps[a]
              /\ EndstopHitBit(a) \in endstop_hit_bits'
                   => EndstopHitBit(a) \in endstop_hit_bits
       /\ tick'.hits = {} =>
            /\ endstop_hit_bits' = endstop_hit_bits
            /\ tick'.path = "block" =>
                 \A i \in DOMAIN tick'.sec_log :
                   tick'.sec_log[i] <= blk'.block.step_event_count
                   /\ (i > 1 => tick'.sec_log[i] = tick'.sec_log[i - 1] + 1)]_vars

\* C25 witness: a block moving X forward has run to its end, X_MIN and the
\* Y_MAX and Z_MAX switches (of axes it does not move) closed in its last
\* invocation
C25_Witness ==
  /\ tick.path = "block" /\ blk.released /\ ~blk.truncated
  /\ blk.block.steps[X_AXIS] > 0 /\ X_AXIS \notin out_bits
  /\ old_endstop_bits = {Endstop(Y_AXIS, "MAX"), Endstop(Z_AXIS, "MAX")}
  /\ endstop_hit_bits = {}
  /\ count_position[X_AXIS] = blk.block.steps[X_AXIS]

\* floor((rate * time + 2^31) / 2^32) for a rate that is a multiple of 2^20
RoundedProduct(rate, time) == ((rate \div 1048576) * time + 2048) \div 4096

\* the block accelerates on all its step events
AllAccel(b) ==
  /\ b.accelerate_until = b.step_event_count
  /\ b.decelerate_after = b.step_event_count
  /\ b.initial_rate < b.nominal_rate
  /\ b.acceleration_rate > 0
  /\ b.nominal_rate <= DOUBLE_STEP_FREQUENCY

\* acceleration_time as the acceleration branch of the next invocation
\* reads it: set by the reset when the invocation loads the block
AccelTimeRead ==
  IF tick'.loaded THEN HAL_TIMER_RATE \div blk'.block.initial_rate
  ELSE trap.acceleration_time

\* an invocation of a block that accelerates throughout leaves acc_step_rate
\* at min(nominal_rate, initial_rate + the rounded product), asks for the
\* interval of that rate, and neither lowers the rate nor lengthens the
\* interval of the invocation before
AccelRamp ==
  (tick' # tick /\ tick'.path = "block" /\ AllAccel(blk'.block)) =>
    /\ tick'.phase = "accel"
    /\ trap'.acc_step_rate =
         Min(blk'.block.nominal_rate,
             blk'.block.initial_rate
               + RoundedProduct(blk'.block.acceleration_rate, AccelTimeRead))
    /\ tick'.timer = HAL_TIMER_RATE \div trap'.acc_step_rate
    /\ ~tick'.loaded =>
         /\ trap'.acc_step_rate >= trap.acc_step_rate
         /\ tick'.timer <= tick.timer
         /\ trap.acc_step_rate = blk.block.nominal_rate =>
              trap'.acc_step_rate = blk.block.nominal_rate

\* C26 as stated: AccelRamp, and each interval is strictly shorter than the
\* one before until the rate has reached nominal_rate.  (SpecTrap)
C26_AccelIntervalsStrictlyDecrease ==
  [][/\ AccelRamp
     /\ (/\ tick' # tick /\ tick'.path = "block" /\ AllAccel(blk'.block)
         /\ ~tick'.loaded /\ trap.acc_step_rate < blk.block.nominal_rate) =>
          tick'.timer < tick.timer]_vars

\* C26 amended: AccelRamp; successive intervals never grow, and are equal
\* when the rounded product has not grown enough to change
\* HAL_TIMER_RATE / acc_step_rate.  (SpecTrap)
C26_AccelIntervalsNeverGrow ==
  [][/\ AccelRamp
     /\ (/\ tick' # tick /\ tick'.path = "block" /\ AllAccel(blk'.block)
         /\ ~tick'.loaded) =>
          (tick'.timer = tick.timer
             <=> HAL_TIMER_RATE \div trap'.acc_step_rate
                   = HAL_TIMER_RATE \div trap.acc_step_rate)]_vars

\* C26 witness: a block that accelerates throughout has reached its nominal
\* rate of 1200 from 500 and stayed there
C26_Witness ==
  /\ tick.path = "block" /\ AllAccel(blk.block) /\ blk.released
  /\ blk.block.initial_rate = 500 /\ blk.block.nominal_rate = 1200
  /\ trap.acc_step_rate = 1200
  /\ trap.acceleration_time
       = (HAL_TIMER_RATE \div 500) + (HAL_TIMER_RATE \div 1000)
         + 2 * (HAL_TIMER_RATE \div 1200)

\* the next invocation works on a block past its decelerate_after
DecelTick ==
  /\ tick' # tick /\ tick'.path = "block"
  /\ step_events_completed' > blk'.block.decelerate_after
  /\ step_events_completed' > blk'.block.accelerate_until

\* the speed lost so far, as the deceleration branch of the next invocation
\* computes it: deceleration_time is 0 after the reset
DecelLost ==
  RoundedProduct(blk'.block.acceleration_rate,
                 IF tick'.loaded THEN 0 ELSE trap.deceleration_time)

ZConfirmed ==
  {e \in {Endstop(Z_AXIS, Gated(out_bits', Z_AXIS)),
          Endstop(Z2, Gated(out_bits', Z_AXIS))} :
     e \in old_endstop_bits /\ e \in old_endstop_bits'}

\* the next invocation samples the endstops of a block that moves Z, and
\* without a trigger would leave it unfinished
DualZTick ==
  /\ tick' # tick /\ tick'.path = "block" /\ check_endstops
  /\ blk'.block.steps[Z_AXIS] > 0
  /\ (IF tick'.loaded THEN 0 ELSE step_events_completed) + 1
       < blk'.block.step_event_count

\* C28: with two Z endstops, a trigger confirmed in the direction of travel
\* ends the block in that invocation exactly when performing_homing is false
\* or both endstops are confirmed.  (SpecDual)
C28_DualZEndsBlockUnlessOneWhileHoming ==
  [][(DualZTick /\ ZConfirmed # {}) =>
       (current_block' = NULL
          <=> (~performing_homing \/ Cardinality(ZConfirmed) = 2))]_vars

\* what the main loop observes: no block queued and no flush pending
QueueDrained == ~blocks_queued(queue) /\ cleaning_buffer_counter = 0

\* C29: whenever no block is queued and cleaning_buffer_counter is 0,
\* current_block is NULL; while the interrupt is enabled the current block is
\* the head of the queue; and an invocation of the interrupt taken while no
\* block is queued emits no step pulse and leaves count_position alone.
\* (SpecQS)
C29_NoBlockQueuedMeansNoMotion ==
  [][/\ QueueDrained => current_block = NULL
     /\ (stepper_irq /\ current_block # NULL) =>
          (blocks_queued(queue) /\ queue[1].id = current_block[1].id)
     /\ (tick' # tick /\ QueueDrained) =>
          /\ SelectSeq(tick'.io, LAMBDA w : w[1] = "step") = <<>>
          /\ count_position' = count_position
          /\ current_block' = NULL]_vars

\* C29 witness: a block has run to its end, quickStop has discarded another
\* and its flush is over, and the interrupt has since found nothing to do
C29_Witness ==
  /\ QueueDrained /\ current_block = NULL /\ pc = "idle"
  /\ blk.released /\ hist.quickstops = 1 /\ hist.flushes = CLEANING_TICKS
  /\ tick.path = "idle"

\* C30: with one Z endstop at each end, count_position on every axis is the
\* value last written by st_set_position or st_set_e_position (0 before any)
\* plus the pulses the stepper interrupt has emitted since with the direction
\* pin at its positive level, less those emitted with it at its negative
\* level.  (SpecAcct)
C30_PositionIsPulsesSinceSet ==
  ~Z_DUAL_ENDSTOPS => \A a \in Axes : count_position[a] = hist.acct[a]

\* C30 witness: after a position was set, one block was cut short by its
\* endstop and quickStop abandoned another that had stepped backward
C30_Witness ==
  /\ hist.set_p[X_AXIS] = 5 /\ hist.quickstops = 1 /\ pc = "idle"
  /\ current_block = NULL
  /\ endstop_hit_bits # {}
  /\ hist.inflight # 0 /\ blk.id = hist.inflight /\ ~blk.released
  /\ count_position # hist.set_p

====
